---------------------------- MODULE Spec2Model ----------------------------
(***************************************************************************)
(* A model of the read path of yuann3/sequel, a reader for SQLite database *)
(* files: the varint and record codecs (src/src/record.rs), the page and   *)
(* cell parsers and the B-tree traversals (src/src/database.rs) and the    *)
(* command handlers (src/src/main.rs).                                     *)
(*                                                                         *)
(* Bytes are numbers 0..255 and a slice is a sequence of bytes.  A 64-bit  *)
(* word (u64, or i64 in two's complement) is the sequence of its 8 bytes,  *)
(* most significant first, so that every width the code computes with is   *)
(* kept exactly.                                                           *)
(***************************************************************************)
EXTENDS Integers, Sequences, FiniteSets, TLC

VARIABLES
    dbdesc,          \* the description of the database file
    call,        \* the call made: its function and arguments
    pc,          \* "idle", the loop the call is in, or "done"
    page_stack,       \* the work page_stack of page numbers
    pages_left,  \* collect_leaf_pages' list, then what is left of it
    out,         \* the records or rowids gathered so far
    ret          \* the call's result once pc = "done"

vars == <<dbdesc, call, pc, page_stack, pages_left, out, ret>>

--------------------------------------------------------------------------
(* 64-bit words *)

U64Zero == <<0, 0, 0, 0, 0, 0, 0, 0>>

\* (v << 7) | x for x < 128 on a u64: each byte keeps its low bit as its
\* high bit and takes the next byte's high seven bits
Shl7Or(v, x) ==
    <<(v[1] % 2) * 128 + v[2] \div 2, (v[2] % 2) * 128 + v[3] \div 2,
      (v[3] % 2) * 128 + v[4] \div 2, (v[4] % 2) * 128 + v[5] \div 2,
      (v[5] % 2) * 128 + v[6] \div 2, (v[6] % 2) * 128 + v[7] \div 2,
      (v[7] % 2) * 128 + v[8] \div 2, (v[8] % 2) * 128 + x>>

\* the ninth byte taken as one more group of seven bits
Shl7OrLow(v, x) == Shl7Or(v, x % 128)

\* (v << 8) | x for x < 256 on a u64
Shl8Or(v, x) == <<v[2], v[3], v[4], v[5], v[6], v[7], v[8], x>>

\* a u64 below 2^31 and its value; a larger one exceeds every slice length
IsSmall(v) == v[1] = 0 /\ v[2] = 0 /\ v[3] = 0 /\ v[4] = 0 /\ v[5] < 128
ToNat(v) == ((v[5] * 256 + v[6]) * 256 + v[7]) * 256 + v[8]

\* the u64 of a number 0 <= n < 2^31
FromNat(n) ==
    <<0, 0, 0, 0, (n \div 16777216) % 256, (n \div 65536) % 256,
      (n \div 256) % 256, n % 256>>

\* lexicographic order of equally long byte strings: the order of u64
RECURSIVE BytesLess(_, _)
BytesLess(a, b) ==
    IF a = <<>> \/ b = <<>> THEN a = <<>> /\ b # <<>>
    ELSE IF a[1] # b[1] THEN a[1] < b[1]
    ELSE BytesLess(Tail(a), Tail(b))

U64Less(a, b) == BytesLess(a, b)
U64Leq(a, b) == a = b \/ BytesLess(a, b)

\* the order of i64: the sign bit is flipped, then the order of u64
FlipSign(v) == <<(v[1] + 128) % 256>> \o Tail(v)
I64Less(a, b) == BytesLess(FlipSign(a), FlipSign(b))

\* a | b on bytes
RECURSIVE ByteOr(_, _)
ByteOr(a, b) ==
    IF a = 0 THEN b
    ELSE IF b = 0 THEN a
    ELSE 2 * ByteOr(a \div 2, b \div 2) + (IF a % 2 = 1 \/ b % 2 = 1 THEN 1 ELSE 0)

WordOr(a, b) == [i \in 1..8 |-> ByteOr(a[i], b[i])]

\* an integer cast that widens a signed big-endian value to i64
\* (`as i64` applied to an i8, i16 or i32)
SignExtend(b) ==
    [i \in 1..(8 - Len(b)) |-> IF b[1] >= 128 THEN 255 ELSE 0] \o b

--------------------------------------------------------------------------
(* Results *)

Err == [st |-> "err"]
Panic == [st |-> "panic"]
IsOk(r) == r.st = "ok"

Drop(s, n) == SubSeq(s, n + 1, Len(s))
Take(s, n) == SubSeq(s, 1, n)

--------------------------------------------------------------------------
(* record.rs: Value *)

Null == [tag |-> "Null", v |-> <<>>]
IntV(w) == [tag |-> "Int", v |-> w]
FloatV(w) == [tag |-> "Float", v |-> w]
TextV(b) == [tag |-> "Text", v |-> b]
BlobV(b) == [tag |-> "Blob", v |-> b]

--------------------------------------------------------------------------
(* record.rs: read_varint *)

\* the loop without its stop at the ninth byte: it goes on while the high
\* bit is set
RECURSIVE varint_loop_no_ninth(_, _, _)
varint_loop_no_ninth(bytes, i, result) ==
    IF i >= Len(bytes) THEN Err
    ELSE LET byte == bytes[i + 1] IN
         IF byte < 128
         THEN [st |-> "ok", value |-> Shl7Or(result, byte % 128), n |-> i + 1]
         ELSE varint_loop_no_ninth(bytes, i + 1, Shl7Or(result, byte % 128))

\* the for loop of read_varint from iteration i, `result` so far
RECURSIVE varint_loop(_, _, _)
varint_loop(bytes, i, result) ==
    IF i >= Len(bytes) THEN Err
    ELSE LET byte == bytes[i + 1] IN
         IF i = 8
         THEN [st |-> "ok", value |-> Shl8Or(result, byte), n |-> i + 1]
         ELSE IF byte < 128
         THEN [st |-> "ok", value |-> Shl7Or(result, byte % 128), n |-> i + 1]
         ELSE varint_loop(bytes, i + 1, Shl7Or(result, byte % 128))

\* Ok((result, &bytes[bytes_read..], bytes_read))
read_varint(bytes) ==
    IF bytes = <<>> THEN Err
    ELSE LET With(r) ==
                 IF IsOk(r)
                 THEN [st |-> "ok", value |-> r.value,
                       rest |-> Drop(bytes, r.n), n |-> r.n]
                 ELSE Err
         IN  With(varint_loop(bytes, 0, U64Zero))

--------------------------------------------------------------------------
(* String::from_utf8: well-formed UTF-8, as the standard library accepts it *)

Cont(b) == b >= 128 /\ b <= 191

RECURSIVE Utf8Valid(_)
Utf8Valid(b) ==
    IF b = <<>> THEN TRUE
    ELSE LET c == b[1]
             n == Len(b)
         IN
         IF c < 128 THEN Utf8Valid(Tail(b))
         ELSE IF c >= 194 /\ c <= 223
         THEN n >= 2 /\ Cont(b[2]) /\ Utf8Valid(Drop(b, 2))
         ELSE IF c >= 224 /\ c <= 239
         THEN /\ n >= 3
              /\ Cont(b[2]) /\ Cont(b[3])
              /\ (c = 224 => b[2] >= 160)
              /\ (c = 237 => b[2] <= 159)
              /\ Utf8Valid(Drop(b, 3))
         ELSE IF c >= 240 /\ c <= 244
         THEN /\ n >= 4
              /\ Cont(b[2]) /\ Cont(b[3]) /\ Cont(b[4])
              /\ (c = 240 => b[2] >= 144)
              /\ (c = 244 => b[2] <= 143)
              /\ Utf8Valid(Drop(b, 4))
         ELSE FALSE

--------------------------------------------------------------------------
(* record.rs: parse_value *)

OkValue(value, n) == [st |-> "ok", value |-> value, n |-> n]

\* serial type 3 with the sign bits of a 48-bit value only: val | 0xFFFFFF000000
Int24Masked(bytes) ==
    LET With(val) ==
            IF (ToNat(val) \div 8388608) % 2 = 1
            THEN WordOr(val, <<0, 0, 255, 255, 255, 0, 0, 0>>)
            ELSE val
    IN  With(FromNat((bytes[1] * 256 + bytes[2]) * 256 + bytes[3]))

\* serial type 3: val | !0xFFFFFF when bit 23 of val is set
Int24(bytes) ==
    LET With(val) ==
            IF (ToNat(val) \div 8388608) % 2 = 1
            THEN WordOr(val, <<255, 255, 255, 255, 255, 0, 0, 0>>)
            ELSE val
    IN  With(FromNat((bytes[1] * 256 + bytes[2]) * 256 + bytes[3]))

\* serial type 5: buf[0], buf[1] set to 0xFF for a negative value, then
\* buf[2..8] copied from bytes[0..6]
Int48(bytes) ==
    LET fill == IF bytes[1] >= 128 THEN 255 ELSE 0
    IN  <<fill, fill>> \o Take(bytes, 6)

\* serial types >= 12 with the text kept as it is read, whatever its bytes
BlobOrTextUnvalidated(serial_type, bytes) ==
    IF ~IsSmall(serial_type) THEN Err
    ELSE LET st == ToNat(serial_type)
             With(len) ==
                 IF Len(bytes) < len THEN Err
                 ELSE IF st % 2 = 0 THEN OkValue(BlobV(Take(bytes, len)), len)
                 ELSE OkValue(TextV(Take(bytes, len)), len)
         IN  With((st - (IF st % 2 = 0 THEN 12 ELSE 13)) \div 2)

\* serial types >= 12: len = (st - (12 or 13)) / 2, Blob when even, Text when odd
BlobOrText(serial_type, bytes) ==
    IF ~IsSmall(serial_type) THEN Err
    ELSE LET st == ToNat(serial_type)
             With(len) ==
                 IF Len(bytes) < len THEN Err
                 ELSE IF st % 2 = 0 THEN OkValue(BlobV(Take(bytes, len)), len)
                 ELSE IF Utf8Valid(Take(bytes, len))
                      THEN OkValue(TextV(Take(bytes, len)), len)
                      ELSE Err
         IN  With((st - (IF st % 2 = 0 THEN 12 ELSE 13)) \div 2)

parse_value(serial_type, bytes) ==
    IF ~IsSmall(serial_type) THEN BlobOrText(serial_type, bytes)
    ELSE LET st == ToNat(serial_type) IN
         CASE st = 0 -> OkValue(Null, 0)
           [] st = 1 -> IF bytes = <<>> THEN Err
                        ELSE OkValue(IntV(SignExtend(Take(bytes, 1))), 1)
           [] st = 2 -> IF Len(bytes) < 2 THEN Err
                        ELSE OkValue(IntV(SignExtend(Take(bytes, 2))), 2)
           [] st = 3 -> IF Len(bytes) < 3 THEN Err
                        ELSE OkValue(IntV(Int24(bytes)), 3)
           [] st = 4 -> IF Len(bytes) < 4 THEN Err
                        ELSE OkValue(IntV(SignExtend(Take(bytes, 4))), 4)
           [] st = 5 -> IF Len(bytes) < 6 THEN Err
                        ELSE OkValue(IntV(Int48(bytes)), 6)
           [] st = 6 -> IF Len(bytes) < 8 THEN Err
                        ELSE OkValue(IntV(Take(bytes, 8)), 8)
           [] st = 7 -> IF Len(bytes) < 8 THEN Err
                        ELSE OkValue(FloatV(Take(bytes, 8)), 8)
           [] st = 8 -> OkValue(IntV(FromNat(0)), 0)
           [] st = 9 -> OkValue(IntV(FromNat(1)), 0)
           [] st = 10 \/ st = 11 -> Err
           [] OTHER -> BlobOrText(serial_type, bytes)

--------------------------------------------------------------------------
(* record.rs: parse_record *)

\* the while loop over the serial types section: the serial types read from
\* position pos on, or Err when a varint runs past the section's end
RECURSIVE serial_types_loop(_, _, _)
serial_types_loop(serial_types_data, pos, column_serial_types) ==
    IF pos >= Len(serial_types_data)
    THEN [st |-> "ok", types |-> column_serial_types]
    ELSE LET With(r) ==
                 IF ~IsOk(r) THEN Err
                 ELSE serial_types_loop(serial_types_data, pos + r.n,
                                        Append(column_serial_types, r.value))
         IN  With(read_varint(Drop(serial_types_data, pos)))

\* the for loop over the columns: each value is parsed at the body cursor,
\* which then moves past the bytes the value consumed
RECURSIVE values_loop(_, _, _, _)
values_loop(types, idx, body_data_cursor, values) ==
    IF idx > Len(types) THEN [st |-> "ok", values |-> values]
    ELSE LET With(r) ==
                 IF ~IsOk(r) THEN Err
                 ELSE IF r.n > Len(body_data_cursor) THEN Err
                 ELSE values_loop(types, idx + 1, Drop(body_data_cursor, r.n),
                                  Append(values, r.value))
         IN  With(parse_value(types[idx], body_data_cursor))

\* the record after its header length varint k with the serial types taken
\* to end K - 1 bytes after the varint, as if the varint were one byte long
parse_record_body_one_byte_K(k, serial_types_section_len) ==
    IF ToNat(k.value) = 0 \/ ToNat(k.value) - 1 > Len(k.rest) THEN Err
    ELSE LET With(t) ==
                 IF ~IsOk(t) THEN Err
                 ELSE values_loop(t.types, 1,
                                  Drop(k.rest, ToNat(k.value) - 1), <<>>)
         IN  With(serial_types_loop(Take(k.rest, ToNat(k.value) - 1),
                                    0, <<>>))

\* the record after its header length varint k, and after its serial
\* types t
parse_record_body(k, serial_types_section_len) ==
    IF serial_types_section_len > Len(k.rest) THEN Err
    ELSE LET With(t) ==
                 IF ~IsOk(t) THEN Err
                 ELSE values_loop(t.types, 1,
                                  Drop(k.rest, serial_types_section_len), <<>>)
         IN  With(serial_types_loop(Take(k.rest, serial_types_section_len),
                                    0, <<>>))

parse_record_header(k) ==
    IF ~IsOk(k) THEN Err
    ELSE IF IsSmall(k.value) /\ ToNat(k.value) < k.n THEN Err
    \* K of 2^31 or more: K - L exceeds the length of every slice
    ELSE IF ~IsSmall(k.value) THEN Err
    ELSE parse_record_body(k, ToNat(k.value) - k.n)

parse_record(record_payload) == parse_record_header(read_varint(record_payload))

--------------------------------------------------------------------------
(* The file format, written: what a database file holds for given rows.    *)
(* These definitions build the input files; they model no code.            *)

\* the quotient of a word by 128, digit by digit from byte i with remainder rem
RECURSIVE Div128From(_, _, _)
Div128From(v, i, rem) ==
    IF i > 8 THEN <<>>
    ELSE LET t == rem * 256 + v[i]
         IN  <<t \div 128>> \o Div128From(v, i + 1, t % 128)

Div128(v) == Div128From(v, 1, 0)

\* the k low base-128 digits of a word, most significant first
RECURSIVE Groups7(_, _)
Groups7(v, k) ==
    IF k = 0 THEN <<>> ELSE Groups7(Div128(v), k - 1) \o <<v[8] % 128>>

RECURSIVE NumGroups(_)
NumGroups(v) == IF Div128(v) = U64Zero THEN 1 ELSE 1 + NumGroups(Div128(v))

\* the SQLite varint of a word: 7 bits a byte, high bit set on all but the
\* last; a word of 2^56 or more takes 9 bytes, the last holding 8 bits
EncVarint(v) ==
    IF v[1] # 0
    THEN LET With(g) == [i \in 1..8 |-> g[i] + 128] \o <<v[8]>>
         IN  With(Groups7(<<0>> \o Take(v, 7), 8))
    ELSE LET Marked(g, k) == [i \in 1..k |-> IF i < k THEN g[i] + 128 ELSE g[i]]
             With(k) == Marked(Groups7(v, k), k)
         IN  With(NumGroups(v))

U16(n) == <<(n \div 256) % 256, n % 256>>
U32(n) == <<0, (n \div 65536) % 256, (n \div 256) % 256, n % 256>>

RECURSIVE Concat(_)
Concat(ss) == IF ss = <<>> THEN <<>> ELSE Head(ss) \o Concat(Tail(ss))

Zeros(n) == [i \in 1..n |-> 0]

\* a value's serial type and body bytes
EncType(val) ==
    CASE val.tag = "Null" -> 0
      [] val.tag = "Int" -> IF val.v = SignExtend(<<val.v[8]>>) THEN 1 ELSE 6
      [] val.tag = "Float" -> 7
      [] val.tag = "Text" -> 13 + 2 * Len(val.v)
      [] val.tag = "Blob" -> 12 + 2 * Len(val.v)

EncBody(val) ==
    IF val.tag = "Int" /\ EncType(val) = 1 THEN <<val.v[8]>> ELSE val.v

\* a record: the header length K, the serial types, the bodies
EncRecord(values) ==
    LET With(types) ==
            EncVarint(FromNat(1 + Len(types))) \o types
            \o Concat([i \in 1..Len(values) |-> EncBody(values[i])])
    IN  With(Concat([i \in 1..Len(values) |->
                       EncVarint(FromNat(EncType(values[i])))]))

\* the four cell shapes
EncTableLeafCell(rowid, values) ==
    LET With(p) == EncVarint(FromNat(Len(p))) \o EncVarint(rowid) \o p
    IN  With(EncRecord(values))

EncTableInteriorCell(left, rowid) == U32(left) \o EncVarint(rowid)

EncIndexLeafCell(values) ==
    LET With(p) == EncVarint(FromNat(Len(p))) \o p IN With(EncRecord(values))

EncIndexInteriorCell(left, values) ==
    LET With(p) == U32(left) \o EncVarint(FromNat(Len(p))) \o p
    IN  With(EncRecord(values))

\* page type bytes
InteriorIndexByte == 2
InteriorTableByte == 5
LeafIndexByte == 10
LeafTableByte == 13

IsInteriorByte(t) == t = InteriorIndexByte \/ t = InteriorTableByte

\* where cell i of a page of size psize starts: the cell content area grows
\* down from the page's end
RECURSIVE CellsLen(_, _)
CellsLen(cells, i) == IF i = 0 THEN 0 ELSE Len(cells[i]) + CellsLen(cells, i - 1)

CellOffset(psize, cells, i) == psize - CellsLen(cells, i)

\* a page description: the header fields, the cell pointer array and the
\* cells, which lie at the end of the page
MkPage(psize, ptype, cells, right) ==
    [ptype |-> ptype, count |-> Len(cells), right |-> right,
     content_start |-> CellOffset(psize, cells, Len(cells)),
     ptrs |-> [i \in 1..Len(cells) |-> CellOffset(psize, cells, i)],
     cells |-> cells]

EmptyPage ==
    [ptype |-> 0, count |-> 0, right |-> 0, content_start |-> 0,
     ptrs |-> <<>>, cells |-> <<>>]

\* the bytes of a page: `before` is the 100-byte database header on page 1
\* and nothing on other pages
EncPage(psize, before, pg) ==
    LET start == CellOffset(psize, pg.cells, Len(pg.cells))
        body == Concat([i \in 1..Len(pg.cells) |->
                          pg.cells[Len(pg.cells) + 1 - i]])
        With(head) == head \o Zeros(start - Len(head)) \o body
    IN  With(before
             \o <<pg.ptype, 0, 0>> \o U16(pg.count)
             \o U16(pg.content_start % 65536) \o <<0>>
             \o (IF IsInteriorByte(pg.ptype) THEN U32(pg.right) ELSE <<>>)
             \o Concat([i \in 1..Len(pg.ptrs) |-> U16(pg.ptrs[i])]))

\* the 100-byte database header: the page size at bytes 16..18
DbHeader(psize) ==
    Zeros(16) \o U16(IF psize = 65536 THEN 1 ELSE psize) \o Zeros(82)

\* the file of a sequence of page descriptions
EncFile(psize, pages) ==
    Concat([n \in 1..Len(pages) |->
              EncPage(psize, IF n = 1 THEN DbHeader(psize) ELSE <<>>, pages[n])])

--------------------------------------------------------------------------
(* database.rs: page header and cells *)

U16Val(hi, lo) == hi * 256 + lo
U32Val(b) == ((b[1] * 256 + b[2]) * 256 + b[3]) * 256 + b[4]

None == [some |-> FALSE, v |-> 0]
Some(x) == [some |-> TRUE, v |-> x]

\* the page type read by its level only, every page taken for a table's
BTreePageType_from_byte_by_level(byte) ==
    CASE byte \in {InteriorIndexByte, InteriorTableByte} ->
           [st |-> "ok", t |-> "InteriorTable"]
      [] byte \in {LeafIndexByte, LeafTableByte} ->
           [st |-> "ok", t |-> "LeafTable"]
      [] OTHER -> Err

BTreePageType_from_byte(byte) ==
    CASE byte = InteriorIndexByte -> [st |-> "ok", t |-> "InteriorIndex"]
      [] byte = InteriorTableByte -> [st |-> "ok", t |-> "InteriorTable"]
      [] byte = LeafIndexByte -> [st |-> "ok", t |-> "LeafIndex"]
      [] byte = LeafTableByte -> [st |-> "ok", t |-> "LeafTable"]
      [] OTHER -> Err

\* the header with cell_content_start as stored, 0 included
BTreePageHeader_parse_as_stored(data) ==
    IF Len(data) < 8 THEN Err
    ELSE LET Header(page_type, is_interior) ==
                 IF is_interior /\ Len(data) < 12 THEN Err
                 ELSE [st |-> "ok",
                       page_type |-> page_type.t,
                       first_freeblock |-> U16Val(data[2], data[3]),
                       cell_count |-> U16Val(data[4], data[5]),
                       cell_content_start |-> U16Val(data[6], data[7]),
                       fragmented_free_bytes |-> data[8],
                       right_most_pointer |->
                           IF is_interior THEN Some(U32Val(SubSeq(data, 9, 12)))
                           ELSE None]
             With(page_type) ==
                 IF ~IsOk(page_type) THEN Err
                 ELSE Header(page_type,
                             page_type.t \in {"InteriorIndex", "InteriorTable"})
         IN  With(BTreePageType_from_byte(data[1]))

BTreePageHeader_parse(data) ==
    IF Len(data) < 8 THEN Err
    ELSE LET Header(page_type, is_interior, cell_content_start) ==
                 IF is_interior /\ Len(data) < 12 THEN Err
                 ELSE [st |-> "ok",
                       page_type |-> page_type.t,
                       first_freeblock |-> U16Val(data[2], data[3]),
                       cell_count |-> U16Val(data[4], data[5]),
                       cell_content_start |->
                           IF cell_content_start = 0 THEN 65536
                           ELSE cell_content_start,
                       fragmented_free_bytes |-> data[8],
                       right_most_pointer |->
                           IF is_interior THEN Some(U32Val(SubSeq(data, 9, 12)))
                           ELSE None]
             With(page_type) ==
                 IF ~IsOk(page_type) THEN Err
                 ELSE Header(page_type,
                             page_type.t \in {"InteriorIndex", "InteriorTable"},
                             U16Val(data[6], data[7]))
         IN  With(BTreePageType_from_byte(data[1]))

\* rest.len() < payload_size as usize, for a u64 payload_size
TooShort(rest, payload_size) ==
    ~IsSmall(payload_size) \/ Len(rest) < ToNat(payload_size)

TableBTreeLeafCell_parse(data) ==
    LET Cell(a, b, size, overflow_value) ==
            [st |-> "ok",
             payload_size |-> a.value,
             rowid |-> b.value,
             payload |-> Take(b.rest, size),
             overflow_page |->
                 IF overflow_value # 0 THEN Some(overflow_value) ELSE None,
             n |-> a.n + b.n + size + (IF overflow_value # 0 THEN 4 ELSE 0)]
        Sized(a, b, size) ==
            Cell(a, b, size,
                 IF Len(b.rest) >= size + 4
                 THEN U32Val(SubSeq(b.rest, size + 1, size + 4))
                 ELSE 0)
        With_b(a, b) ==
            IF ~IsOk(b) THEN Err
            ELSE IF TooShort(b.rest, a.value) THEN Err
            ELSE Sized(a, b, ToNat(a.value))
        With_a(a) == IF ~IsOk(a) THEN Err ELSE With_b(a, read_varint(a.rest))
    IN  With_a(read_varint(data))

TableBTreeInteriorCell_parse(data) ==
    IF Len(data) < 4 THEN Err
    ELSE LET With(r) ==
                 IF ~IsOk(r) THEN Err
                 ELSE [st |-> "ok", left_child_page |-> U32Val(Take(data, 4)),
                       rowid |-> r.value, n |-> 4 + r.n]
         IN  With(read_varint(Drop(data, 4)))

IndexBTreeLeafCell_parse(data) ==
    LET With(a) ==
            IF ~IsOk(a) THEN Err
            ELSE IF TooShort(a.rest, a.value) THEN Err
            ELSE [st |-> "ok", payload_size |-> a.value,
                  payload |-> Take(a.rest, ToNat(a.value)),
                  n |-> a.n + ToNat(a.value)]
    IN  With(read_varint(data))

IndexBTreeInteriorCell_parse(data) ==
    IF Len(data) < 4 THEN Err
    ELSE LET With(a) ==
                 IF ~IsOk(a) THEN Err
                 ELSE IF TooShort(a.rest, a.value) THEN Err
                 ELSE [st |-> "ok", left_child_page |-> U32Val(Take(data, 4)),
                       payload_size |-> a.value,
                       payload |-> Take(a.rest, ToNat(a.value)),
                       n |-> 4 + a.n + ToNat(a.value)]
         IN  With(read_varint(Drop(data, 4)))

--------------------------------------------------------------------------
(* database.rs: Database *)

\* a read that returns the bytes there are, be they fewer than len
ReadAvailable(file, offset, len) ==
    [st |-> "ok",
     data |-> SubSeq(file, offset + 1,
                     IF offset + len > Len(file) THEN Len(file)
                     ELSE offset + len)]

\* file.seek(Start(offset)) then file.read_exact of len bytes
ReadExact(file, offset, len) ==
    IF offset + len > Len(file) THEN Err
    ELSE [st |-> "ok", data |-> SubSeq(file, offset + 1, offset + len)]

\* Database::open: the page size from bytes 16..18 of the 100-byte header
Database_open(file) ==
    LET Sized(page_size) ==
            [st |-> "ok", file |-> file,
             page_size |-> IF page_size = 1 THEN 65536 ELSE page_size]
        With(header) ==
            IF ~IsOk(header) THEN Err
            ELSE Sized(U16Val(header.data[17], header.data[18]))
    IN  With(ReadExact(file, 0, 100))

\* Database::read_page.  page_number - 1 underflows for page 0: a panic in
\* a build with overflow checks, and otherwise an offset no file reaches
read_page(db, page_number, overflow_checks) ==
    IF page_number = 0
    THEN (IF overflow_checks THEN Panic ELSE Err)
    ELSE ReadExact(db.file, (page_number - 1) * db.page_size, db.page_size)

\* Database::open(path), then read_page(page_number) on the database
open_read_page(file, page_number, overflow_checks) ==
    LET With_page(db, page) ==
            IF ~IsOk(page) THEN [st |-> page.st, page_size |-> db.page_size]
            ELSE [st |-> "ok", page_size |-> db.page_size, data |-> page.data]
        With_db(db) ==
            IF ~IsOk(db) THEN Err
            ELSE With_page(db, read_page(db, page_number, overflow_checks))
    IN  With_db(Database_open(file))

\* &page_data[cell_offset..] for the i-th cell pointer (i from 0), after the
\* check `pointer_offset + 2 > page_data.len()` that each traversal makes
CellData(page_data, cell_pointers_start, i) ==
    LET pointer_offset == cell_pointers_start + i * 2 IN
    IF pointer_offset + 2 > Len(page_data) THEN Err
    ELSE LET cell_offset == U16Val(page_data[pointer_offset + 1],
                                   page_data[pointer_offset + 2])
         IN  IF cell_offset > Len(page_data) THEN Panic
             ELSE [st |-> "ok", data |-> Drop(page_data, cell_offset)]

\* read_page, then the header parsed at header_offset
LoadPage(db, page_number, overflow_checks) ==
    LET header_offset == IF page_number = 1 THEN 100 ELSE 0
        With_header(page, header) ==
            IF ~IsOk(header) THEN Err
            ELSE [st |-> "ok", page_data |-> page.data,
                  header_offset |-> header_offset, header |-> header]
        With_page(page) ==
            IF ~IsOk(page) THEN page
            ELSE With_header(page,
                     BTreePageHeader_parse(Drop(page.data, header_offset)))
    IN  With_page(read_page(db, page_number, overflow_checks))

Reverse(s) == [i \in 1..Len(s) |-> s[Len(s) + 1 - i]]

\* the same children pushed without the reversal, so that the right-most
\* child is popped first
PushChildrenInOrder(stack, child_pages, header) ==
    stack \o (IF header.right_most_pointer.some
              THEN Append(child_pages, header.right_most_pointer.v)
              ELSE child_pages)

\* child_pages with right_most_pointer pushed, then pushed on the stack in
\* reverse
PushChildren(stack, child_pages, header) ==
    stack \o Reverse(IF header.right_most_pointer.some
                     THEN Append(child_pages, header.right_most_pointer.v)
                     ELSE child_pages)

--------------------------------------------------------------------------
(* database.rs: collect_leaf_pages and read_table_records *)

Top(stack) == stack[Len(stack)]
Pop(stack) == Take(stack, Len(stack) - 1)

Stop(r) == [st |-> r.st]

\* the for loop over the cells of an interior table page
RECURSIVE leaf_pages_cells_loop(_, _, _, _, _)
leaf_pages_cells_loop(page_data, cell_pointers_start, cell_count, i, child_pages) ==
    IF i >= cell_count THEN [st |-> "ok", child_pages |-> child_pages]
    ELSE LET With_cell(cell) ==
                 IF ~IsOk(cell) THEN Err
                 ELSE leaf_pages_cells_loop(page_data, cell_pointers_start,
                          cell_count, i + 1,
                          Append(child_pages, cell.left_child_page))
             With_c(c) ==
                 IF ~IsOk(c) THEN c
                 ELSE With_cell(TableBTreeInteriorCell_parse(c.data))
         IN  With_c(CellData(page_data, cell_pointers_start, i))

\* one iteration of `while let Some(page_number) = stack.pop()`:
\* st = "run" with the new stack and leaf_pages, or the error that ends it
collect_leaf_pages_step(db, stack, leaf_pages, overflow_checks) ==
    LET page_number == Top(stack)
        With_ch(pg, ch) ==
            IF ~IsOk(ch) THEN Stop(ch)
            ELSE [st |-> "run",
                  stack |-> PushChildren(Pop(stack), ch.child_pages, pg.header),
                  leaf_pages |-> leaf_pages]
        With_pg(pg) ==
            IF ~IsOk(pg) THEN Stop(pg)
            ELSE CASE pg.header.page_type = "LeafTable" ->
                        [st |-> "run", stack |-> Pop(stack),
                         leaf_pages |-> Append(leaf_pages, page_number)]
                   [] pg.header.page_type = "InteriorTable" ->
                        With_ch(pg,
                            leaf_pages_cells_loop(pg.page_data,
                                pg.header_offset
                                + (IF pg.header.right_most_pointer.some
                                   THEN 12 ELSE 8),
                                pg.header.cell_count, 0, <<>>))
                   [] OTHER -> Err
    IN  With_pg(LoadPage(db, page_number, overflow_checks))

\* the for loop over the cells of a leaf table page: each row is the
\* record with Int(rowid) inserted in front
RECURSIVE records_cells_loop(_, _, _, _, _)
records_cells_loop(page_data, cell_pointers_start, cell_count, i, all_records) ==
    IF i >= cell_count THEN [st |-> "ok", records |-> all_records]
    ELSE LET With_record(cell, record) ==
                 IF ~IsOk(record) THEN Err
                 ELSE records_cells_loop(page_data, cell_pointers_start,
                          cell_count, i + 1,
                          Append(all_records,
                                 <<IntV(cell.rowid)>> \o record.values))
             With_cell(cell) ==
                 IF ~IsOk(cell) THEN Err
                 ELSE With_record(cell, parse_record(cell.payload))
             With_c(c) ==
                 IF ~IsOk(c) THEN c
                 ELSE With_cell(TableBTreeLeafCell_parse(c.data))
         IN  With_c(CellData(page_data, cell_pointers_start, i))

\* one iteration of `for page_number in leaf_pages` of read_table_records
read_table_records_step(db, page_number, all_records, overflow_checks) ==
    LET With_r(r) ==
            IF ~IsOk(r) THEN Stop(r)
            ELSE [st |-> "run", records |-> r.records]
        With_pg(pg) ==
            IF ~IsOk(pg) THEN Stop(pg)
            ELSE IF pg.header.page_type # "LeafTable" THEN Err
            ELSE With_r(records_cells_loop(pg.page_data, pg.header_offset + 8,
                            pg.header.cell_count, 0, all_records))
    IN  With_pg(LoadPage(db, page_number, overflow_checks))

--------------------------------------------------------------------------
(* database.rs: collect_index_rowids *)

\* the strict order of str
StrLess(a, b) == BytesLess(a, b)

\* the order of str: bytewise, a proper prefix first
StrLeq(a, b) == a = b \/ BytesLess(a, b)

\* the for loop over the cells of a leaf index page
RECURSIVE index_leaf_loop(_, _, _, _, _, _)
index_leaf_loop(page_data, cell_pointers_start, cell_count, i, target, rowids) ==
    IF i >= cell_count THEN [st |-> "ok", rowids |-> rowids]
    ELSE LET With_record(record) ==
                 IF ~IsOk(record) THEN Err
                 ELSE index_leaf_loop(page_data, cell_pointers_start, cell_count,
                          i + 1, target,
                          IF /\ Len(record.values) >= 2
                             /\ record.values[1].tag = "Text"
                             /\ record.values[2].tag = "Int"
                             /\ record.values[1].v = target
                          THEN Append(rowids, record.values[2].v)
                          ELSE rowids)
             With_cell(cell) ==
                 IF ~IsOk(cell) THEN Err
                 ELSE With_record(parse_record(cell.payload))
             With_c(c) ==
                 IF ~IsOk(c) THEN c
                 ELSE With_cell(IndexBTreeLeafCell_parse(c.data))
         IN  With_c(CellData(page_data, cell_pointers_start, i))

\* the for loop over the cells of an interior index page
RECURSIVE index_interior_loop(_, _, _, _, _, _)
index_interior_loop(page_data, cell_pointers_start, cell_count, i, target, child_pages) ==
    IF i >= cell_count THEN [st |-> "ok", child_pages |-> child_pages]
    ELSE LET With_record(cell, record) ==
                 IF ~IsOk(record) THEN Err
                 ELSE index_interior_loop(page_data, cell_pointers_start,
                          cell_count, i + 1, target,
                          IF /\ Len(record.values) >= 1
                             /\ record.values[1].tag = "Text"
                             /\ StrLeq(target, record.values[1].v)
                          THEN Append(child_pages, cell.left_child_page)
                          ELSE child_pages)
             With_cell(cell) ==
                 IF ~IsOk(cell) THEN Err
                 ELSE With_record(cell, parse_record(cell.payload))
             With_c(c) ==
                 IF ~IsOk(c) THEN c
                 ELSE With_cell(IndexBTreeInteriorCell_parse(c.data))
         IN  With_c(CellData(page_data, cell_pointers_start, i))

\* one iteration of the while loop of collect_index_rowids
collect_index_rowids_step(db, stack, rowids, target, overflow_checks) ==
    LET With_r(r) ==
            IF ~IsOk(r) THEN Stop(r)
            ELSE [st |-> "run", stack |-> Pop(stack), rowids |-> r.rowids]
        With_ch(pg, ch) ==
            IF ~IsOk(ch) THEN Stop(ch)
            ELSE [st |-> "run",
                  stack |-> PushChildren(Pop(stack), ch.child_pages, pg.header),
                  rowids |-> rowids]
        With_pg(pg) ==
            IF ~IsOk(pg) THEN Stop(pg)
            ELSE CASE pg.header.page_type = "LeafIndex" ->
                        With_r(index_leaf_loop(pg.page_data, pg.header_offset + 8,
                                   pg.header.cell_count, 0, target, rowids))
                   [] pg.header.page_type = "InteriorIndex" ->
                        With_ch(pg,
                            index_interior_loop(pg.page_data,
                                pg.header_offset + 12, pg.header.cell_count, 0,
                                target, <<>>))
                   [] OTHER -> Err
    IN  With_pg(LoadPage(db, Top(stack), overflow_checks))

\* rowids.sort(): ascending in the order of u64
RECURSIVE InsertU64(_, _)
InsertU64(sorted, x) ==
    IF sorted = <<>> THEN <<x>>
    ELSE IF U64Leq(x, Head(sorted)) THEN <<x>> \o sorted
    ELSE <<Head(sorted)>> \o InsertU64(Tail(sorted), x)

RECURSIVE SortU64(_)
SortU64(s) ==
    IF s = <<>> THEN <<>> ELSE InsertU64(SortU64(Take(s, Len(s) - 1)), s[Len(s)])

--------------------------------------------------------------------------
(* database.rs: read_table_records_by_rowids *)

Range(s) == {s[i] : i \in 1..Len(s)}

\* target_rowids.iter().min() in the order of u64
MinU64(s) == CHOOSE x \in Range(s) : \A y \in Range(s) : U64Leq(x, y)

\* the for loop over the cells of a leaf table page: the rows in rowid_set
RECURSIVE fetch_leaf_loop(_, _, _, _, _, _)
fetch_leaf_loop(page_data, cell_pointers_start, cell_count, i, rowid_set, records) ==
    IF i >= cell_count THEN [st |-> "ok", records |-> records]
    ELSE LET With_record(cell, record) ==
                 IF ~IsOk(record) THEN Err
                 ELSE fetch_leaf_loop(page_data, cell_pointers_start, cell_count,
                          i + 1, rowid_set,
                          Append(records, <<IntV(cell.rowid)>> \o record.values))
             With_cell(cell) ==
                 IF ~IsOk(cell) THEN Err
                 ELSE IF cell.rowid \notin rowid_set
                 THEN fetch_leaf_loop(page_data, cell_pointers_start, cell_count,
                          i + 1, rowid_set, records)
                 ELSE With_record(cell, parse_record(cell.payload))
             With_c(c) ==
                 IF ~IsOk(c) THEN c
                 ELSE With_cell(TableBTreeLeafCell_parse(c.data))
         IN  With_c(CellData(page_data, cell_pointers_start, i))

\* whether an interior cell's left child is visited
FetchDescends(cell_rowid, min_target) == U64Leq(min_target, cell_rowid)

\* the for loop over the cells of an interior table page: the children
\* whose cell.rowid >= min_target
RECURSIVE fetch_interior_loop(_, _, _, _, _, _)
fetch_interior_loop(page_data, cell_pointers_start, cell_count, i, min_target, child_pages) ==
    IF i >= cell_count THEN [st |-> "ok", child_pages |-> child_pages]
    ELSE LET With_cell(cell) ==
                 IF ~IsOk(cell) THEN Err
                 ELSE fetch_interior_loop(page_data, cell_pointers_start,
                          cell_count, i + 1, min_target,
                          IF FetchDescends(cell.rowid, min_target)
                          THEN Append(child_pages, cell.left_child_page)
                          ELSE child_pages)
             With_c(c) ==
                 IF ~IsOk(c) THEN c
                 ELSE With_cell(TableBTreeInteriorCell_parse(c.data))
         IN  With_c(CellData(page_data, cell_pointers_start, i))

\* one iteration of the while loop of read_table_records_by_rowids
read_table_records_by_rowids_step(db, stack, records, target_rowids, overflow_checks) ==
    LET With_r(r) ==
            IF ~IsOk(r) THEN Stop(r)
            ELSE [st |-> "run", stack |-> Pop(stack), records |-> r.records]
        With_ch(pg, ch) ==
            IF ~IsOk(ch) THEN Stop(ch)
            ELSE [st |-> "run",
                  stack |-> PushChildren(Pop(stack), ch.child_pages, pg.header),
                  records |-> records]
        With_pg(pg) ==
            IF ~IsOk(pg) THEN Stop(pg)
            ELSE CASE pg.header.page_type = "LeafTable" ->
                        With_r(fetch_leaf_loop(pg.page_data, pg.header_offset + 8,
                                   pg.header.cell_count, 0, Range(target_rowids),
                                   records))
                   [] pg.header.page_type = "InteriorTable" ->
                        With_ch(pg,
                            fetch_interior_loop(pg.page_data,
                                pg.header_offset + 12, pg.header.cell_count, 0,
                                MinU64(target_rowids), <<>>))
                   [] OTHER -> Err
    IN  With_pg(LoadPage(db, Top(stack), overflow_checks))

--------------------------------------------------------------------------
(* database.rs: read_schema *)

\* page_data[i] for a 0-based index i: the byte, or a panic past the end
InBounds(page_data, i) == i < Len(page_data)

\* the typed columns of a schema row: type, tbl_name and rootpage must be
\* Text, Text and Int or the row is skipped; sql is Some for a Text and None
\* for anything else
SchemaEntryOf(record) ==
    IF /\ Len(record) >= 5
       /\ record[1].tag = "Text"
       /\ record[3].tag = "Text"
       /\ record[4].tag = "Int"
    THEN <<[typ |-> record[1].v,
            tbl_name |-> record[3].v,
            rootpage |-> U32Val(SubSeq(record[4].v, 5, 8)),
            sql |-> IF record[5].tag = "Text" THEN Some(record[5].v) ELSE None]>>
    ELSE <<>>

\* the for loop of read_schema over the cells of page 1
RECURSIVE read_schema_loop(_, _, _, _)
read_schema_loop(page_data, cell_count, i, schema_entries) ==
    IF i >= cell_count THEN [st |-> "ok", entries |-> schema_entries]
    ELSE LET offset_pos == 108 + i * 2 IN
         IF ~InBounds(page_data, offset_pos + 1) THEN Panic
         ELSE LET cell_offset == U16Val(page_data[offset_pos + 1],
                                        page_data[offset_pos + 2])
              IN
              IF cell_offset > Len(page_data) THEN Panic
              ELSE LET With_record(record) ==
                           IF ~IsOk(record) THEN Err
                           ELSE read_schema_loop(page_data, cell_count, i + 1,
                                    schema_entries \o SchemaEntryOf(record.values))
                       With_b(b) ==
                           IF ~IsOk(b) THEN Err
                           ELSE With_record(parse_record(b.rest))
                       With_a(a) ==
                           IF ~IsOk(a) THEN Err ELSE With_b(read_varint(a.rest))
                   IN  With_a(read_varint(Drop(page_data, cell_offset)))

read_schema(db) ==
    LET page == ReadExact(db.file, 0, db.page_size) IN
    IF ~IsOk(page) THEN Err
    ELSE IF ~InBounds(page.data, 104) THEN Panic
    ELSE read_schema_loop(page.data,
                          U16Val(page.data[104], page.data[105]), 0, <<>>)

--------------------------------------------------------------------------
(* main.rs: the record decoder of the command handlers *)

ReplacementChar == <<239, 191, 189>>

\* how many bytes of a character starting at b[1] >= 128 are well formed,
\* and whether they make a whole character (the standard library's
\* Utf8Chunks)
Utf8Prefix(b) ==
    LET c == b[1]
        n == Len(b)
        second_ok ==
            /\ n >= 2
            /\ \/ c >= 194 /\ c <= 223 /\ Cont(b[2])
               \/ c = 224 /\ b[2] >= 160 /\ b[2] <= 191
               \/ c >= 225 /\ c <= 236 /\ Cont(b[2])
               \/ c = 237 /\ b[2] >= 128 /\ b[2] <= 159
               \/ c >= 238 /\ c <= 239 /\ Cont(b[2])
               \/ c = 240 /\ b[2] >= 144 /\ b[2] <= 191
               \/ c >= 241 /\ c <= 243 /\ Cont(b[2])
               \/ c = 244 /\ b[2] >= 128 /\ b[2] <= 143
        width == IF c >= 194 /\ c <= 223 THEN 2
                 ELSE IF c >= 224 /\ c <= 239 THEN 3
                 ELSE IF c >= 240 /\ c <= 244 THEN 4
                 ELSE 0
    IN  IF width = 0 \/ ~second_ok THEN [len |-> 1, whole |-> FALSE]
        ELSE IF width = 2 THEN [len |-> 2, whole |-> TRUE]
        ELSE IF ~(n >= 3 /\ Cont(b[3])) THEN [len |-> 2, whole |-> FALSE]
        ELSE IF width = 3 THEN [len |-> 3, whole |-> TRUE]
        ELSE IF ~(n >= 4 /\ Cont(b[4])) THEN [len |-> 3, whole |-> FALSE]
        ELSE [len |-> 4, whole |-> TRUE]

\* String::from_utf8_lossy: each ill-formed part becomes U+FFFD
RECURSIVE Utf8Lossy(_)
Utf8Lossy(b) ==
    IF b = <<>> THEN <<>>
    ELSE IF b[1] < 128 THEN <<b[1]>> \o Utf8Lossy(Tail(b))
    ELSE LET With(p) ==
                 (IF p.whole THEN Take(b, p.len) ELSE ReplacementChar)
                 \o Utf8Lossy(Drop(b, p.len))
         IN  With(Utf8Prefix(b))

\* parse_value of main.rs: it indexes and slices without a length check
main_parse_value(serial_type, bytes) ==
    IF ~IsSmall(serial_type) THEN Panic
    ELSE LET st == ToNat(serial_type) IN
         CASE st = 0 -> OkValue(Null, 0)
           [] st = 1 -> IF Len(bytes) < 1 THEN Panic
                        ELSE OkValue(IntV(SignExtend(Take(bytes, 1))), 1)
           [] st = 2 -> IF Len(bytes) < 2 THEN Panic
                        ELSE OkValue(IntV(SignExtend(Take(bytes, 2))), 2)
           [] st = 3 ->
                IF Len(bytes) < 3 THEN Panic
                ELSE LET value == FromNat((bytes[1] * 256 + bytes[2]) * 256
                                          + bytes[3])
                     IN  IF bytes[1] >= 128
                         THEN OkValue(IntV(WordOr(value,
                                  <<0, 0, 255, 255, 255, 0, 0, 0>>)), 3)
                         ELSE OkValue(IntV(value), 3)
           [] st = 4 -> IF Len(bytes) < 4 THEN Panic
                        ELSE OkValue(IntV(SignExtend(Take(bytes, 4))), 4)
           [] st = 5 ->
                \* buf[3..8] = bytes[0..5], then value >> 24
                IF Len(bytes) < 5 THEN Panic
                ELSE OkValue(IntV(<<0, 0, 0, 0, 0, 0, bytes[1], bytes[2]>>), 5)
           [] st = 6 -> IF Len(bytes) < 8 THEN Panic
                        ELSE OkValue(IntV(Take(bytes, 8)), 8)
           [] st = 7 -> IF Len(bytes) < 8 THEN Panic
                        ELSE OkValue(FloatV(Take(bytes, 8)), 8)
           [] st = 8 -> OkValue(IntV(FromNat(0)), 0)
           [] st = 9 -> OkValue(IntV(FromNat(1)), 0)
           \* serial_type - 12 and serial_type - 13 underflow for 10 and 11:
           \* a panic with overflow checks, and without them a length no
           \* slice has
           [] st = 10 \/ st = 11 -> Panic
           [] OTHER ->
                LET len == (st - (IF st % 2 = 0 THEN 12 ELSE 13)) \div 2 IN
                IF Len(bytes) < len THEN Panic
                ELSE IF st % 2 = 0 THEN OkValue(BlobV(Take(bytes, len)), len)
                ELSE OkValue(TextV(Utf8Lossy(Take(bytes, len))), len)

\* the for loop over column_types: a Null for serial type 0, otherwise the
\* value parsed at &data[current_pos..]
RECURSIVE main_values_loop(_, _, _, _, _)
main_values_loop(data, types, idx, current_pos, values) ==
    IF idx > Len(types) THEN [st |-> "ok", values |-> values]
    ELSE IF types[idx] = U64Zero
    THEN main_values_loop(data, types, idx + 1, current_pos, Append(values, Null))
    ELSE IF current_pos > Len(data) THEN Panic
    ELSE LET With(r) ==
                 IF ~IsOk(r) THEN Stop(r)
                 ELSE main_values_loop(data, types, idx + 1, current_pos + r.n,
                                       Append(values, r.value))
         IN  With(main_parse_value(types[idx], Drop(data, current_pos)))

\* parse_record of main.rs: header_end = header_size - 1 and
\* &data[..header_end], neither checked
main_parse_record(bytes) ==
    LET With_t(h, header_end, t) ==
            IF ~IsOk(t) THEN Err
            ELSE main_values_loop(h.rest, t.types, 1, header_end, <<>>)
        With_end(h, header_end) ==
            IF header_end > Len(h.rest) THEN Panic
            ELSE With_t(h, header_end,
                        serial_types_loop(Take(h.rest, header_end), 0, <<>>))
        With_h(h) ==
            IF ~IsOk(h) THEN Err
            ELSE IF ~IsSmall(h.value) \/ ToNat(h.value) = 0 THEN Panic
            ELSE With_end(h, ToNat(h.value) - 1)
    IN  With_h(read_varint(bytes))

--------------------------------------------------------------------------
(* main.rs: Database::read_schema and the command handlers *)

main_SchemaEntryOf(record) ==
    IF /\ Len(record) >= 5
       /\ record[1].tag = "Text"
       /\ record[3].tag = "Text"
       /\ record[4].tag = "Int"
    THEN <<[typ |-> record[1].v,
            tbl_name |-> record[3].v,
            rootpage |-> U32Val(SubSeq(record[4].v, 5, 8))]>>
    ELSE <<>>

RECURSIVE main_read_schema_loop(_, _, _, _)
main_read_schema_loop(page_data, cell_count, i, schema_entries) ==
    IF i >= cell_count THEN [st |-> "ok", entries |-> schema_entries]
    ELSE LET offset_pos == 108 + i * 2 IN
         IF ~InBounds(page_data, offset_pos + 1) THEN Panic
         ELSE LET cell_offset == U16Val(page_data[offset_pos + 1],
                                        page_data[offset_pos + 2])
              IN
              IF cell_offset > Len(page_data) THEN Panic
              ELSE LET With_record(record) ==
                           IF ~IsOk(record) THEN Stop(record)
                           ELSE main_read_schema_loop(page_data, cell_count,
                                    i + 1,
                                    schema_entries
                                    \o main_SchemaEntryOf(record.values))
                       With_b(b) ==
                           IF ~IsOk(b) THEN Err
                           ELSE With_record(main_parse_record(b.rest))
                       With_a(a) ==
                           IF ~IsOk(a) THEN Err ELSE With_b(read_varint(a.rest))
                   IN  With_a(read_varint(Drop(page_data, cell_offset)))

main_read_schema(db) ==
    LET page == ReadExact(db.file, 0, db.page_size) IN
    IF ~IsOk(page) THEN Err
    ELSE IF ~InBounds(page.data, 104) THEN Panic
    ELSE main_read_schema_loop(page.data,
                               U16Val(page.data[104], page.data[105]), 0, <<>>)

\* "table" and "sqlite_" in ASCII
TableStr == <<116, 97, 98, 108, 101>>
IndexStr == <<105, 110, 100, 101, 120>>
SqlitePrefix == <<115, 113, 108, 105, 116, 101, 95>>

StartsWith(str, prefix) ==
    Len(str) >= Len(prefix) /\ Take(str, Len(prefix)) = prefix

\* whether a schema entry is counted by .dbinfo and listed by .tables
IsListedTable(entry) == entry.typ = TableStr

\* handle_dbinfo: the page size is printed, then the number of tables
handle_dbinfo(file) ==
    LET With_schema(db, schema) ==
            IF ~IsOk(schema) THEN [st |-> schema.st, out |-> <<db.page_size>>]
            ELSE [st |-> "ok",
                  out |-> <<db.page_size,
                            Len(SelectSeq(schema.entries, IsListedTable))>>]
        With_db(db) ==
            IF ~IsOk(db) THEN [st |-> "err", out |-> <<>>]
            ELSE With_schema(db, main_read_schema(db))
    IN  With_db(Database_open(file))

\* handle_tables: the names of the tables, in schema order, on one line
handle_tables(file) ==
    LET Names(listed) == [i \in 1..Len(listed) |-> listed[i].tbl_name]
        With_schema(schema) ==
            IF ~IsOk(schema) THEN [st |-> schema.st, out |-> <<>>]
            ELSE [st |-> "ok",
                  out |-> <<Names(SelectSeq(schema.entries, IsListedTable))>>]
        With_db(db) ==
            IF ~IsOk(db) THEN [st |-> "err", out |-> <<>>]
            ELSE With_schema(main_read_schema(db))
    IN  With_db(Database_open(file))

\* the number handle_count prints for a root page: the u16 at
\* header_offset + 3 of the page
CountOfPage(page_data, header_offset) ==
    IF ~InBounds(page_data, header_offset + 4) THEN Panic
    ELSE [st |-> "ok",
          n |-> U16Val(page_data[header_offset + 4], page_data[header_offset + 5])]

\* handle_count: the table's schema entry, its root page, the number
handle_count(file, table_name, overflow_checks) ==
    LET IsIt(e) == e.typ = TableStr /\ e.tbl_name = table_name
        With_c(c) ==
            IF ~IsOk(c) THEN [st |-> c.st, out |-> <<>>]
            ELSE [st |-> "ok", out |-> <<c.n>>]
        With_page(entry, page) ==
            IF ~IsOk(page) THEN [st |-> page.st, out |-> <<>>]
            ELSE With_c(CountOfPage(page.data,
                                    IF entry.rootpage = 1 THEN 100 ELSE 0))
        With_entry(db, entry) ==
            With_page(entry, read_page(db, entry.rootpage, overflow_checks))
        With_found(db, found) ==
            IF found = <<>> THEN [st |-> "err", out |-> <<>>]
            ELSE With_entry(db, found[1])
        With_schema(db, schema) ==
            IF ~IsOk(schema) THEN [st |-> schema.st, out |-> <<>>]
            ELSE With_found(db, SelectSeq(schema.entries, IsIt))
        With_db(db) ==
            IF ~IsOk(db) THEN [st |-> "err", out |-> <<>>]
            ELSE With_schema(db, main_read_schema(db))
    IN  With_db(Database_open(file))

--------------------------------------------------------------------------
(* The database files of the model.  A description names the rows of one   *)
(* table `t` (a rowid and a text column), the shape of its B-tree and of   *)
(* the B-tree of the index on the text column, and a defect, if any; the   *)
(* file is what the format prescribes for it.                              *)

\* rows in a table, and target rowids in a fetch, at most
MaxRows == 3
MaxTargets == 2

\* the rowids rows are drawn from, ascending as i64: -2, 1, 2, 200
RowidPool == <<<<255, 255, 255, 255, 255, 255, 255, 254>>,
               FromNat(1), FromNat(2), FromNat(200)>>

\* the text keys: "a", "ab"; the targets searched for add "b"
KeyPool == {<<97>>, <<97, 98>>}
TargetPool == KeyPool \cup {<<98>>}

\* the page size of the tree files, and where the trees start
TreePageSize == 128
TableRoot == 2
IndexRoot == TableRoot + 5

\* the ascending sequences of n indices into RowidPool
RECURSIVE Ascending(_, _)
Ascending(n, lo) ==
    IF n = 0 THEN {<<>>}
    ELSE UNION {{<<i>> \o t : t \in Ascending(n - 1, i + 1)} :
                  i \in lo..Len(RowidPool)}

RowSeqs ==
    UNION {{[i \in 1..n |-> [rowid |-> RowidPool[ix[i]], key |-> keys[i]]] :
              ix \in Ascending(n, 1), keys \in [1..n -> KeyPool]} :
             n \in 0..MaxRows}

\* the ways to cut n rows into Len(cuts) + 1 non-empty consecutive chunks
RECURSIVE Cuts(_, _, _)
Cuts(k, lo, n) ==
    IF k = 0 THEN {<<>>}
    ELSE UNION {{<<c>> \o t : t \in Cuts(k - 1, c + 1, n)} : c \in lo..(n - 1)}

Chunk(rows, cuts, i) ==
    SubSeq(rows,
           (IF i = 1 THEN 0 ELSE cuts[i - 1]) + 1,
           IF i > Len(cuts) THEN Len(rows) ELSE cuts[i])

Last(s) == s[Len(s)]

TableLeaf(rows) ==
    MkPage(TreePageSize, LeafTableByte,
           [i \in 1..Len(rows) |->
              EncTableLeafCell(rows[i].rowid, <<TextV(rows[i].key)>>)], 0)

TableCell(left, rows) == EncTableInteriorCell(left, Last(rows).rowid)

IndexRecord(row) == <<TextV(row.key), IntV(row.rowid)>>

IndexLeaf(rows) ==
    MkPage(TreePageSize, LeafIndexByte,
           [i \in 1..Len(rows) |-> EncIndexLeafCell(IndexRecord(rows[i]))], 0)

IndexCell(left, rows) == EncIndexInteriorCell(left, IndexRecord(Last(rows)))

\* the pages of a tree whose root is page `base`: a single leaf; an
\* interior root over Len(cuts) + 1 leaves (over one leaf, it holds only
\* the right-most pointer); or an interior root over an interior page and
\* a leaf, three leaves in all.  A leaf page holds a chunk of the rows and
\* an interior cell the key of its left child's last row, the child's
\* maximum; itype says whether the tree is a table's or an index's
LeafOf(itype, rows) ==
    IF itype = InteriorTableByte THEN TableLeaf(rows) ELSE IndexLeaf(rows)

CellOf(itype, left, rows) ==
    IF itype = InteriorTableByte THEN TableCell(left, rows)
    ELSE IndexCell(left, rows)

TreePages(base, shape, rows, cuts, itype) ==
    LET m == Len(cuts) + 1
        Ch(i) == Chunk(rows, cuts, i)
    IN  CASE shape = "leaf" -> <<LeafOf(itype, rows)>>
          [] shape = "flat" ->
               <<MkPage(TreePageSize, itype,
                        [i \in 1..(m - 1) |-> CellOf(itype, base + i, Ch(i))],
                        base + m)>>
               \o [i \in 1..m |-> LeafOf(itype, Ch(i))]
          [] shape = "deep" ->
               <<MkPage(TreePageSize, itype,
                        <<CellOf(itype, base + 1, Ch(2))>>, base + 4),
                 MkPage(TreePageSize, itype,
                        <<CellOf(itype, base + 2, Ch(1))>>, base + 3),
                 LeafOf(itype, Ch(1)), LeafOf(itype, Ch(2)),
                 LeafOf(itype, Ch(3))>>

\* the order of index entries: by key, then by rowid as i64
EntryLeq(a, b) ==
    \/ BytesLess(a.key, b.key)
    \/ a.key = b.key /\ (a.rowid = b.rowid \/ I64Less(a.rowid, b.rowid))

RECURSIVE InsertEntry(_, _)
InsertEntry(sorted, x) ==
    IF sorted = <<>> THEN <<x>>
    ELSE IF EntryLeq(x, Head(sorted)) THEN <<x>> \o sorted
    ELSE <<Head(sorted)>> \o InsertEntry(Tail(sorted), x)

RECURSIVE SortEntries(_)
SortEntries(s) ==
    IF s = <<>> THEN <<>>
    ELSE InsertEntry(SortEntries(Take(s, Len(s) - 1)), s[Len(s)])

\* a schema row: (type, name, tbl_name, rootpage, sql)
EncSchemaCell(rowid, e) ==
    EncTableLeafCell(FromNat(rowid),
        <<TextV(e.typ), TextV(e.name), TextV(e.tbl_name),
          IntV(FromNat(e.rootpage)), e.sql>>)

SchemaPageOfRows(psize, rows) ==
    MkPage(psize, LeafTableByte,
           [i \in 1..Len(rows) |-> EncTableLeafCell(FromNat(i), rows[i])], 0)

SchemaPage(psize, entries) ==
    MkPage(psize, LeafTableByte,
           [i \in 1..Len(entries) |-> EncSchemaCell(i, entries[i])], 0)

TName == <<116>>

TreeSchema ==
    <<[typ |-> TableStr, name |-> TName, tbl_name |-> TName,
       rootpage |-> TableRoot, sql |-> Null]>>

Pad(pages, n) == pages \o [i \in 1..(n - Len(pages)) |-> EmptyPage]

\* the pages of a tree file: the schema on page 1, the table from page 2,
\* the index five pages on
TreeFilePages(d) ==
    Pad(<<SchemaPage(TreePageSize, TreeSchema)>>, TableRoot - 1)
    \o Pad(TreePages(TableRoot, d.shape, d.rows, d.cuts, InteriorTableByte),
           IndexRoot - TableRoot)
    \o TreePages(IndexRoot, d.shape, SortEntries(d.rows), d.cuts,
                 InteriorIndexByte)

NoDefect == [kind |-> "none", page |-> 0]

TreeDb(rows, shape, cuts) ==
    [kind |-> "tree", rows |-> rows, shape |-> shape, cuts |-> cuts,
     entries |-> TreeSchema, defect |-> NoDefect]

TreeDbs ==
    UNION {
      {TreeDb(rows, "leaf", <<>>)}
      \cup {TreeDb(rows, "flat", c) :
              c \in UNION {Cuts(k, 1, Len(rows)) : k \in 0..2}}
      \cup {TreeDb(rows, "deep", c) : c \in Cuts(2, 1, Len(rows))}
      : rows \in RowSeqs}

\* files that hold a schema only, on one larger page: up to MaxEntries
\* rows, each a table `t`, the internal table `sqlite_s` or an index `i`
MaxEntries == 2
SchemaPageSize == 256

SqliteS == SqlitePrefix \o <<115>>

EntryPool ==
    {[typ |-> TableStr, name |-> TName, tbl_name |-> TName,
      rootpage |-> 2, sql |-> Null],
     [typ |-> TableStr, name |-> SqliteS, tbl_name |-> SqliteS,
      rootpage |-> 3, sql |-> Null],
     [typ |-> IndexStr, name |-> <<105>>, tbl_name |-> TName,
      rootpage |-> 4, sql |-> TextV(<<105>>)]}

SchemaDbs ==
    UNION {{[kind |-> "schema", rows |-> <<>>, shape |-> "leaf", cuts |-> <<>>,
             entries |-> e, defect |-> NoDefect] : e \in [1..n -> EntryPool]} :
             n \in 0..MaxEntries}

\* unusual rows: the first row of a schema file has a column of another
\* variant, lacks its last column, or has one more
RowVariants ==
    {"sql_int", "sql_blob", "no_sql", "typ_int", "tbl_name_null",
     "rootpage_text", "extra_column"}

\* the columns of a schema row, as the variant has them
ColumnsOf(e, variant) ==
    LET cols == <<TextV(e.typ), TextV(e.name), TextV(e.tbl_name),
                  IntV(FromNat(e.rootpage)), e.sql>>
    IN  CASE variant = "sql_int" -> [cols EXCEPT ![5] = IntV(FromNat(7))]
          [] variant = "sql_blob" -> [cols EXCEPT ![5] = BlobV(<<1>>)]
          [] variant = "no_sql" -> Take(cols, 4)
          [] variant = "typ_int" -> [cols EXCEPT ![1] = IntV(FromNat(7))]
          [] variant = "tbl_name_null" -> [cols EXCEPT ![3] = Null]
          [] variant = "rootpage_text" -> [cols EXCEPT ![4] = TextV(<<50>>)]
          [] variant = "extra_column" -> cols \o <<Null>>
          [] OTHER -> cols

\* the columns of row i of a schema file
RowColumns(d, i) ==
    ColumnsOf(d.entries[i], IF i = 1 THEN d.defect.kind ELSE "none")

VariantDbs ==
    {[b EXCEPT !.defect = [kind |-> k, page |-> 1]] :
       b \in {s \in SchemaDbs : s.entries # <<>>}, k \in RowVariants}

\* defective files: a tree file one of whose pages (the schema page, the
\* table root or the index root) has its first cell pointer past the end of
\* the page, or a cell content start above its cell pointers
DefectKinds == {"pointer_past_end", "content_start_high"}

DefectBases ==
    {TreeDb([i \in 1..2 |-> [rowid |-> RowidPool[i + 1], key |-> <<97>>]],
            shape, cuts) :
       <<shape, cuts>> \in {<<"leaf", <<>>>>, <<"flat", <<1>>>>}}

DefectDbs ==
    {[b EXCEPT !.defect = [kind |-> k, page |-> n]] :
       b \in DefectBases, k \in DefectKinds, n \in {1, TableRoot, IndexRoot}}

\* misplaced pages: a file of two leaves under an interior root, in the
\* table and in the index, one of whose pages bears the page type of the
\* other tree at the same level ("type_swapped"), or whose index leaf on
\* the right holds a cell of one column only ("one_column")
MisplacedKinds == {"type_swapped", "one_column"}

MisplacedBase ==
    TreeDb([i \in 1..2 |-> [rowid |-> RowidPool[i + 1], key |-> <<97>>]],
           "flat", <<1>>)

MisplacedDbs ==
    {[MisplacedBase EXCEPT !.defect = [kind |-> "type_swapped", page |-> n]] :
       n \in {TableRoot, TableRoot + 1, TableRoot + 2,
              IndexRoot, IndexRoot + 1, IndexRoot + 2}}
    \cup {[MisplacedBase EXCEPT
             !.defect = [kind |-> "one_column", page |-> IndexRoot + 2]]}

\* a file with a cycle of child pointers: its table and its index are two
\* interior pages without cells, each the right-most child of the other
CycleFilePages ==
    Pad(<<SchemaPage(TreePageSize, TreeSchema)>>, TableRoot - 1)
    \o Pad(<<MkPage(TreePageSize, InteriorTableByte, <<>>, TableRoot + 1),
             MkPage(TreePageSize, InteriorTableByte, <<>>, TableRoot)>>,
           IndexRoot - TableRoot)
    \o <<MkPage(TreePageSize, InteriorIndexByte, <<>>, IndexRoot + 1),
         MkPage(TreePageSize, InteriorIndexByte, <<>>, IndexRoot)>>

CycleDb ==
    [kind |-> "cycle", rows |-> <<>>, shape |-> "flat", cuts |-> <<>>,
     entries |-> TreeSchema, defect |-> NoDefect]

Databases ==
    TreeDbs \cup SchemaDbs \cup DefectDbs \cup MisplacedDbs \cup VariantDbs
    \cup {CycleDb}

PageSizeOf(d) == IF d.kind = "schema" THEN SchemaPageSize ELSE TreePageSize

\* the page type of the other tree at the same level
SwapType(ptype) ==
    CASE ptype = InteriorIndexByte -> InteriorTableByte
      [] ptype = InteriorTableByte -> InteriorIndexByte
      [] ptype = LeafIndexByte -> LeafTableByte
      [] ptype = LeafTableByte -> LeafIndexByte
      [] OTHER -> ptype

\* a page description with the defect applied
Defective(psize, pg, kind) ==
    CASE kind = "pointer_past_end" ->
           [pg EXCEPT !.ptrs = <<psize + 1>> \o Tail(pg.ptrs)]
      [] kind = "content_start_high" ->
           [pg EXCEPT !.content_start = psize - 1]
      [] kind = "type_swapped" -> [pg EXCEPT !.ptype = SwapType(pg.ptype)]
      [] kind = "one_column" ->
           MkPage(psize, LeafIndexByte, <<EncIndexLeafCell(<<TextV(<<97>>)>>)>>, 0)
      [] OTHER -> pg

PagesOf(d) ==
    LET With(pages) ==
            [n \in 1..Len(pages) |->
               IF n = d.defect.page
               THEN Defective(PageSizeOf(d), pages[n], d.defect.kind)
               ELSE pages[n]]
    IN  With(IF d.kind = "schema"
             THEN <<SchemaPageOfRows(SchemaPageSize,
                        [i \in 1..Len(d.entries) |-> RowColumns(d, i)])>>
             ELSE IF d.kind = "cycle" THEN CycleFilePages
             ELSE TreeFilePages(d))

\* the file of a description
FileOf(d) == EncFile(PageSizeOf(d), PagesOf(d))

--------------------------------------------------------------------------
(* database.rs: the traversals run to their end *)

RECURSIVE collect_leaf_pages_from(_, _, _)
collect_leaf_pages_from(db, stack, leaf_pages) ==
    IF stack = <<>> THEN [st |-> "ok", leaf_pages |-> leaf_pages]
    ELSE LET With(r) ==
                 IF r.st # "run" THEN r
                 ELSE collect_leaf_pages_from(db, r.stack, r.leaf_pages)
         IN  With(collect_leaf_pages_step(db, stack, leaf_pages, TRUE))

collect_leaf_pages(db, root_page) ==
    collect_leaf_pages_from(db, <<root_page>>, <<>>)

RECURSIVE read_table_records_from(_, _, _)
read_table_records_from(db, leaf_pages, all_records) ==
    IF leaf_pages = <<>> THEN [st |-> "ok", records |-> all_records]
    ELSE LET With(r) ==
                 IF r.st # "run" THEN r
                 ELSE read_table_records_from(db, Tail(leaf_pages), r.records)
         IN  With(read_table_records_step(db, Head(leaf_pages), all_records,
                                          TRUE))

read_table_records(db, root_page) ==
    LET With(leaf_pages) ==
            IF ~IsOk(leaf_pages) THEN leaf_pages
            ELSE read_table_records_from(db, leaf_pages.leaf_pages, <<>>)
    IN  With(collect_leaf_pages(db, root_page))

RECURSIVE collect_index_rowids_from(_, _, _, _)
collect_index_rowids_from(db, stack, rowids, target) ==
    IF stack = <<>> THEN [st |-> "ok", rowids |-> SortU64(rowids)]
    ELSE LET With(r) ==
                 IF r.st # "run" THEN r
                 ELSE collect_index_rowids_from(db, r.stack, r.rowids, target)
         IN  With(collect_index_rowids_step(db, stack, rowids, target, TRUE))

collect_index_rowids(db, index_root_page, target) ==
    collect_index_rowids_from(db, <<index_root_page>>, <<>>, target)

RECURSIVE read_table_records_by_rowids_from(_, _, _, _)
read_table_records_by_rowids_from(db, stack, records, target_rowids) ==
    IF stack = <<>> THEN [st |-> "ok", records |-> records]
    ELSE LET With(r) ==
                 IF r.st # "run" THEN r
                 ELSE read_table_records_by_rowids_from(db, r.stack, r.records,
                                                        target_rowids)
         IN  With(read_table_records_by_rowids_step(db, stack, records,
                                                    target_rowids, TRUE))

read_table_records_by_rowids(db, table_root_page, target_rowids) ==
    IF target_rowids = <<>> THEN [st |-> "ok", records |-> <<>>]
    ELSE read_table_records_by_rowids_from(db, <<table_root_page>>, <<>>,
                                           target_rowids)

--------------------------------------------------------------------------
(* parser.rs: parse_query, on a &str of ASCII characters *)

CharAt(s, i) == SubSeq(s, i, i)

UpperCase == "ABCDEFGHIJKLMNOPQRSTUVWXYZ"
LowerCase == "abcdefghijklmnopqrstuvwxyz"

\* str::to_lowercase, character by character
char_to_lowercase(c) ==
    IF \E i \in 1..Len(UpperCase) : CharAt(UpperCase, i) = c
    THEN CharAt(LowerCase,
                CHOOSE i \in 1..Len(UpperCase) : CharAt(UpperCase, i) = c)
    ELSE c

RECURSIVE to_lowercase(_)
to_lowercase(s) ==
    IF s = "" THEN ""
    ELSE char_to_lowercase(CharAt(s, 1)) \o to_lowercase(Tail(s))

IsWhitespace(c) == c \in {" ", "\t", "\n", "\r"}

RECURSIVE trim_start(_)
trim_start(s) ==
    IF s # "" /\ IsWhitespace(CharAt(s, 1)) THEN trim_start(Tail(s)) ELSE s

RECURSIVE trim_end(_)
trim_end(s) ==
    IF s # "" /\ IsWhitespace(CharAt(s, Len(s)))
    THEN trim_end(SubSeq(s, 1, Len(s) - 1))
    ELSE s

trim(s) == trim_end(trim_start(s))

starts_with(s, pat) == Len(s) >= Len(pat) /\ SubSeq(s, 1, Len(pat)) = pat
ends_with(s, pat) ==
    Len(s) >= Len(pat) /\ SubSeq(s, Len(s) - Len(pat) + 1, Len(s)) = pat

\* str::find: the offset of the first match, if there is one
find(s, pat) ==
    LET hits == {i \in 0..(Len(s) - Len(pat)) :
                   SubSeq(s, i + 1, i + Len(pat)) = pat}
    IN  IF hits = {} THEN [some |-> FALSE, pos |-> 0]
        ELSE [some |-> TRUE,
              pos |-> CHOOSE i \in hits : \A j \in hits : i <= j]

\* str::split on a separator of one character
RECURSIVE split(_, _)
split(s, sep) ==
    LET With(f) ==
            IF ~f.some THEN <<s>>
            ELSE <<SubSeq(s, 1, f.pos)>>
                 \o split(SubSeq(s, f.pos + 2, Len(s)), sep)
    IN  With(find(s, sep))

\* str::splitn(2, sep)
splitn2(s, sep) ==
    LET With(f) ==
            IF ~f.some THEN <<s>>
            ELSE <<SubSeq(s, 1, f.pos), SubSeq(s, f.pos + 2, Len(s))>>
    IN  With(find(s, sep))

\* the length of the first word of a string that starts with one
RECURSIVE WordLen(_)
WordLen(s) ==
    IF s = "" \/ IsWhitespace(CharAt(s, 1)) THEN 0 ELSE 1 + WordLen(Tail(s))

RECURSIVE split_whitespace(_)
split_whitespace(s) ==
    LET With(t) ==
            IF t = "" THEN <<>>
            ELSE <<SubSeq(t, 1, WordLen(t))>>
                 \o split_whitespace(SubSeq(t, WordLen(t) + 1, Len(t)))
    IN  With(trim_start(s))

NoWhere == [some |-> FALSE, column |-> "", operator |-> "", value |-> ""]

\* the branch of SELECT COUNT(*): the table of the lowercased words
select_count(parts) ==
    LET table_index == IF parts[2] = "count(*)" THEN 3 ELSE 4
    IN  IF Len(parts) <= table_index THEN Err
        ELSE [st |-> "ok", kind |-> "SelectCount",
              table |-> parts[table_index + 1]]

\* the WHERE clause after its keyword
where_condition(condition_str) ==
    LET condition_parts ==
            [i \in 1..Len(splitn2(condition_str, "=")) |->
               trim(splitn2(condition_str, "=")[i])]
    IN  IF Len(condition_parts) # 2 THEN Err
        ELSE IF /\ starts_with(condition_parts[2], "'")
                /\ ends_with(condition_parts[2], "'")
                /\ Len(condition_parts[2]) >= 2
        THEN [st |-> "ok",
              where_clause |->
                [some |-> TRUE, column |-> condition_parts[1],
                 operator |-> "=",
                 value |-> SubSeq(condition_parts[2], 2,
                                  Len(condition_parts[2]) - 1)]]
        ELSE Err

\* the table and the WHERE clause of what follows " from "
select_from(columns, remaining_part_str_original) ==
    LET With_where(w, table_name_str) ==
            IF ~IsOk(w) THEN Err
            ELSE IF table_name_str = "" THEN Err
            ELSE [st |-> "ok", kind |-> "Select", columns |-> columns,
                  table |-> table_name_str, where_clause |-> w.where_clause]
        With(where_pos) ==
            IF where_pos.some
            THEN With_where(
                     where_condition(trim(SubSeq(remaining_part_str_original,
                         where_pos.pos + Len(" where ") + 1,
                         Len(remaining_part_str_original)))),
                     trim(SubSeq(remaining_part_str_original, 1,
                                 where_pos.pos)))
            ELSE With_where([st |-> "ok", where_clause |-> NoWhere],
                            remaining_part_str_original)
    IN  With(find(to_lowercase(remaining_part_str_original), " where "))

\* the columns between "select" and " from ", and the rest
select_columns(original_query_trimmed, from_pos) ==
    LET pieces ==
            split(trim(SubSeq(original_query_trimmed, Len("select") + 1,
                              from_pos)), ",")
        columns ==
            SelectSeq([i \in 1..Len(pieces) |-> trim(pieces[i])],
                      LAMBDA c : c # "")
    IN  IF columns = <<>> THEN Err
        ELSE select_from(columns,
                 trim(SubSeq(original_query_trimmed,
                             from_pos + Len(" from ") + 1,
                             Len(original_query_trimmed))))

parse_query(query) ==
    LET query_lower == to_lowercase(trim(query))
        parts == split_whitespace(query_lower)
        With(from_pos) ==
            IF ~from_pos.some THEN Err
            ELSE select_columns(trim(query), from_pos.pos)
    IN  IF ~starts_with(query_lower, "select") THEN Err
        ELSE IF /\ Len(parts) >= 4
                /\ parts[1] = "select"
                /\ \/ parts[2] = "count(*)"
                   \/ parts[2] = "count" /\ parts[3] = "(*)"
                      /\ parts[4] = "from"
        THEN select_count(parts)
        ELSE With(find(query_lower, " from "))

--------------------------------------------------------------------------
(* The calls on a database file *)

\* a query as its parts: the keywords as they are written, what is
\* selected, the table, and the condition after the WHERE keyword, if any
NoQuery ==
    [lead |-> "", select |-> "", what |-> "", from |-> "", table |-> "",
     where |-> "", cond |-> [text |-> "", quoted |-> FALSE]]

NoCall ==
    [fn |-> "none", root |-> 0, target |-> <<>>, target_rowids |-> <<>>,
     via_index |-> FALSE, serial_type |-> U64Zero, bytes |-> <<>>,
     cell |-> [payload_size |-> 0, at |-> 0, filler |-> 0],
     query |-> NoQuery]

NoRet == [st |-> "none"]

\* the files of the descriptions, each built once
Files == [d \in Databases |-> FileOf(d)] @@ <<>>

TheFile == Files[dbdesc]

\* the pages of the descriptions, as described
Pages == [d \in Databases |-> PagesOf(d)] @@ <<>>

\* the opened database: Database::open on the file
Opened == [d \in Databases |-> Database_open(Files[d])] @@ <<>>

TheDb == Opened[dbdesc]

\* with and without overflow checks, where page_number - 1 may underflow
ChecksFor(page_number) == IF page_number = 0 THEN BOOLEAN ELSE {TRUE}

TargetLists == UNION {[1..n -> Range(RowidPool)] : n \in 0..MaxTargets}

Init ==
    /\ dbdesc \in Databases
    /\ call = NoCall
    /\ pc = "idle"
    /\ page_stack = <<>>
    /\ pages_left = <<>>
    /\ out = <<>>
    /\ ret = NoRet

Finish(r) == pc' = "done" /\ ret' = r

\* read_table_records(root_page) starts with collect_leaf_pages(root_page)
Call_read_table_records ==
    /\ pc = "idle"
    /\ pc' = "collect_leaf_pages"
    /\ call' = [NoCall EXCEPT !.fn = "read_table_records", !.root = TableRoot]
    /\ page_stack' = <<TableRoot>>
    /\ UNCHANGED <<dbdesc, pages_left, out, ret>>

Step_collect_leaf_pages ==
    /\ pc = "collect_leaf_pages"
    /\ page_stack # <<>>
    /\ \E oc \in ChecksFor(Top(page_stack)) :
       \E r \in {collect_leaf_pages_step(TheDb, page_stack, pages_left, oc)} :
         IF r.st = "run"
         THEN /\ page_stack' = r.stack
              /\ pages_left' = r.leaf_pages
              /\ UNCHANGED <<pc, ret>>
         ELSE /\ Finish(r)
              /\ UNCHANGED <<page_stack, pages_left>>
    /\ UNCHANGED <<dbdesc, call, out>>

Return_collect_leaf_pages ==
    /\ pc = "collect_leaf_pages"
    /\ page_stack = <<>>
    /\ pc' = "read_table_records"
    /\ UNCHANGED <<dbdesc, call, page_stack, pages_left, out, ret>>

Step_read_table_records ==
    /\ pc = "read_table_records"
    /\ pages_left # <<>>
    /\ \E oc \in ChecksFor(Head(pages_left)) :
       \E r \in {read_table_records_step(TheDb, Head(pages_left), out, oc)} :
         IF r.st = "run"
         THEN /\ out' = r.records
              /\ pages_left' = Tail(pages_left)
              /\ UNCHANGED <<pc, ret>>
         ELSE /\ Finish(r)
              /\ UNCHANGED <<out, pages_left>>
    /\ UNCHANGED <<dbdesc, call, page_stack>>

Return_read_table_records ==
    /\ pc = "read_table_records"
    /\ pages_left = <<>>
    /\ Finish([st |-> "ok", records |-> out])
    /\ UNCHANGED <<dbdesc, call, page_stack, pages_left, out>>

Call_collect_index_rowids ==
    /\ pc = "idle"
    /\ \E target \in TargetPool :
         call' = [NoCall EXCEPT !.fn = "collect_index_rowids",
                                !.root = IndexRoot, !.target = target]
    /\ pc' = "collect_index_rowids"
    /\ page_stack' = <<IndexRoot>>
    /\ UNCHANGED <<dbdesc, pages_left, out, ret>>

Step_collect_index_rowids ==
    /\ pc = "collect_index_rowids"
    /\ page_stack # <<>>
    /\ \E oc \in ChecksFor(Top(page_stack)) :
       \E r \in {collect_index_rowids_step(TheDb, page_stack, out,
                                           call.target, oc)} :
         IF r.st = "run"
         THEN /\ page_stack' = r.stack
              /\ out' = r.rowids
              /\ UNCHANGED <<pc, ret>>
         ELSE /\ Finish(r)
              /\ UNCHANGED <<page_stack, out>>
    /\ UNCHANGED <<dbdesc, call, pages_left>>

Return_collect_index_rowids ==
    /\ pc = "collect_index_rowids"
    /\ page_stack = <<>>
    /\ Finish([st |-> "ok", rowids |-> SortU64(out)])
    /\ UNCHANGED <<dbdesc, call, page_stack, pages_left, out>>

\* read_table_records_by_rowids(table_root_page, target_rowids): an empty
\* list returns at once
StartFetch(c) ==
    /\ call' = c
    /\ out' = <<>>
    /\ IF c.target_rowids = <<>>
       THEN Finish([st |-> "ok", records |-> <<>>]) /\ UNCHANGED page_stack
       ELSE pc' = "read_table_records_by_rowids" /\ page_stack' = <<c.root>>
            /\ UNCHANGED ret
    /\ UNCHANGED <<dbdesc, pages_left>>

Call_read_table_records_by_rowids ==
    /\ pc = "idle"
    /\ \E target_rowids \in TargetLists :
         StartFetch([NoCall EXCEPT !.fn = "read_table_records_by_rowids",
                                   !.root = TableRoot,
                                   !.target_rowids = target_rowids])

\* the indexed lookup: the rowids an index search returned are fetched
Call_indexed_fetch ==
    /\ pc = "done"
    /\ call.fn = "collect_index_rowids"
    /\ ret.st = "ok"
    /\ StartFetch([NoCall EXCEPT !.fn = "read_table_records_by_rowids",
                                 !.root = TableRoot,
                                 !.target = call.target,
                                 !.target_rowids = ret.rowids,
                                 !.via_index = TRUE])

Step_read_table_records_by_rowids ==
    /\ pc = "read_table_records_by_rowids"
    /\ page_stack # <<>>
    /\ \E oc \in ChecksFor(Top(page_stack)) :
       \E r \in {read_table_records_by_rowids_step(TheDb, page_stack, out,
                                                   call.target_rowids, oc)} :
         IF r.st = "run"
         THEN /\ page_stack' = r.stack
              /\ out' = r.records
              /\ UNCHANGED <<pc, ret>>
         ELSE /\ Finish(r)
              /\ UNCHANGED <<page_stack, out>>
    /\ UNCHANGED <<dbdesc, call, pages_left>>

Return_read_table_records_by_rowids ==
    /\ pc = "read_table_records_by_rowids"
    /\ page_stack = <<>>
    /\ Finish([st |-> "ok", records |-> out])
    /\ UNCHANGED <<dbdesc, call, page_stack, pages_left, out>>

Call_read_schema ==
    /\ pc = "idle"
    /\ call' = [NoCall EXCEPT !.fn = "read_schema"]
    /\ Finish(read_schema(TheDb))
    /\ UNCHANGED <<dbdesc, page_stack, pages_left, out>>

\* main.rs: read_schema of the command handlers' Database
Call_main_read_schema ==
    /\ pc = "idle"
    /\ call' = [NoCall EXCEPT !.fn = "main_read_schema"]
    /\ Finish(main_read_schema(TheDb))
    /\ UNCHANGED <<dbdesc, page_stack, pages_left, out>>

\* the commands of main.rs
Run_dbinfo ==
    /\ pc = "idle"
    /\ call' = [NoCall EXCEPT !.fn = "handle_dbinfo"]
    /\ Finish(handle_dbinfo(TheFile))
    /\ UNCHANGED <<dbdesc, page_stack, pages_left, out>>

Run_tables ==
    /\ pc = "idle"
    /\ call' = [NoCall EXCEPT !.fn = "handle_tables"]
    /\ Finish(handle_tables(TheFile))
    /\ UNCHANGED <<dbdesc, page_stack, pages_left, out>>

Run_count ==
    /\ pc = "idle"
    /\ \E table_name \in {TName, SqliteS}, oc \in BOOLEAN :
         /\ call' = [NoCall EXCEPT !.fn = "handle_count", !.target = table_name]
         /\ Finish(handle_count(TheFile, table_name, oc))
    /\ UNCHANGED <<dbdesc, page_stack, pages_left, out>>

Next ==
    \/ Call_read_table_records
    \/ Step_collect_leaf_pages
    \/ Return_collect_leaf_pages
    \/ Step_read_table_records
    \/ Return_read_table_records
    \/ Call_collect_index_rowids
    \/ Step_collect_index_rowids
    \/ Return_collect_index_rowids
    \/ Call_read_table_records_by_rowids
    \/ Call_indexed_fetch
    \/ Step_read_table_records_by_rowids
    \/ Return_read_table_records_by_rowids
    \/ Call_read_schema
    \/ Call_main_read_schema
    \/ Run_dbinfo
    \/ Run_tables
    \/ Run_count

Spec == Init /\ [][Next]_vars

--------------------------------------------------------------------------
(* The three traversals alone, run to their end.  What an iteration does   *)
(* with the page it pops is computed once for each file and page: the      *)
(* iteration on a stack that holds the page only, with nothing gathered.   *)

\* the files walked: the cycle, trees of one and of three pages, and the
\* trees with a page of the other tree's type or a one-column index cell
LiveDbs == {CycleDb} \cup DefectBases \cup MisplacedDbs

\* page numbers: none (0), the pages of the files, and one past them
LivePages == 0..(IndexRoot + 3)

LeafPagesStepOn ==
    [k \in LiveDbs \X LivePages \X BOOLEAN |->
       collect_leaf_pages_step(Opened[k[1]], <<k[2]>>, <<>>, k[3])] @@ <<>>

IndexStepOn ==
    [k \in LiveDbs \X LivePages \X TargetPool \X BOOLEAN |->
       collect_index_rowids_step(Opened[k[1]], <<k[2]>>, <<>>, k[3], k[4])]
    @@ <<>>

FetchStepOn ==
    [k \in LiveDbs \X LivePages \X (TargetLists \ {<<>>}) \X BOOLEAN |->
       read_table_records_by_rowids_step(Opened[k[1]], <<k[2]>>, <<>>,
                                         k[3], k[4])] @@ <<>>

\* the iteration on the whole stack: the pages below the top stay, what
\* was gathered before stays in front
OnStack(below, r) ==
    IF r.st = "run" THEN [r EXCEPT !.stack = below \o r.stack] ELSE r

InitLive ==
    /\ dbdesc \in LiveDbs
    /\ call = NoCall
    /\ pc = "idle"
    /\ page_stack = <<>>
    /\ pages_left = <<>>
    /\ out = <<>>
    /\ ret = NoRet

\* collect_leaf_pages(root_page)
Call_collect_leaf_pages ==
    /\ pc = "idle"
    /\ pc' = "collect_leaf_pages"
    /\ call' = [NoCall EXCEPT !.fn = "collect_leaf_pages", !.root = TableRoot]
    /\ page_stack' = <<TableRoot>>
    /\ UNCHANGED <<dbdesc, pages_left, out, ret>>

Iterate_collect_leaf_pages ==
    /\ pc = "collect_leaf_pages"
    /\ page_stack # <<>>
    /\ \E oc \in ChecksFor(Top(page_stack)) :
       \E r \in {OnStack(Pop(page_stack),
                          LeafPagesStepOn[<<dbdesc, Top(page_stack), oc>>])} :
         IF r.st = "run"
         THEN /\ page_stack' = r.stack
              /\ pages_left' = pages_left \o r.leaf_pages
              /\ UNCHANGED <<pc, ret>>
         ELSE /\ Finish(r)
              /\ UNCHANGED <<page_stack, pages_left>>
    /\ UNCHANGED <<dbdesc, call, out>>

Ok_collect_leaf_pages ==
    /\ pc = "collect_leaf_pages"
    /\ page_stack = <<>>
    /\ Finish([st |-> "ok", leaf_pages |-> pages_left])
    /\ UNCHANGED <<dbdesc, call, page_stack, pages_left, out>>

Iterate_collect_index_rowids ==
    /\ pc = "collect_index_rowids"
    /\ page_stack # <<>>
    /\ \E oc \in ChecksFor(Top(page_stack)) :
       \E r \in {OnStack(Pop(page_stack),
                          IndexStepOn[<<dbdesc, Top(page_stack),
                                        call.target, oc>>])} :
         IF r.st = "run"
         THEN /\ page_stack' = r.stack
              /\ out' = out \o r.rowids
              /\ UNCHANGED <<pc, ret>>
         ELSE /\ Finish(r)
              /\ UNCHANGED <<page_stack, out>>
    /\ UNCHANGED <<dbdesc, call, pages_left>>

Iterate_read_table_records_by_rowids ==
    /\ pc = "read_table_records_by_rowids"
    /\ page_stack # <<>>
    /\ \E oc \in ChecksFor(Top(page_stack)) :
       \E r \in {OnStack(Pop(page_stack),
                          FetchStepOn[<<dbdesc, Top(page_stack),
                                        call.target_rowids, oc>>])} :
         IF r.st = "run"
         THEN /\ page_stack' = r.stack
              /\ out' = out \o r.records
              /\ UNCHANGED <<pc, ret>>
         ELSE /\ Finish(r)
              /\ UNCHANGED <<page_stack, out>>
    /\ UNCHANGED <<dbdesc, call, pages_left>>

NextLive ==
    \/ Call_collect_leaf_pages
    \/ Iterate_collect_leaf_pages
    \/ Ok_collect_leaf_pages
    \/ Call_collect_index_rowids
    \/ Iterate_collect_index_rowids
    \/ Return_collect_index_rowids
    \/ Call_read_table_records_by_rowids
    \/ Iterate_read_table_records_by_rowids
    \/ Return_read_table_records_by_rowids

\* the program is one thread: a step that can be taken is taken
SpecLive == InitLive /\ [][NextLive]_vars /\ WF_vars(NextLive)

\* on every file walked, an iteration of Spec and the iteration computed
\* once for the page agree
IterationsAgree ==
    dbdesc \in LiveDbs /\ page_stack # <<>> =>
      \A oc \in ChecksFor(Top(page_stack)) :
        LET k == <<dbdesc, Top(page_stack), oc>>
            Same(r, gathered, direct) ==
                OnStack(Pop(page_stack),
                        IF r.st = "run" THEN gathered ELSE r) = direct
        IN  /\ pc = "collect_leaf_pages" =>
                 Same(LeafPagesStepOn[k],
                      [LeafPagesStepOn[k] EXCEPT
                         !.leaf_pages = pages_left \o @],
                      collect_leaf_pages_step(TheDb, page_stack, pages_left,
                                              oc))
            /\ pc = "collect_index_rowids" =>
                 Same(IndexStepOn[<<k[1], k[2], call.target, oc>>],
                      [IndexStepOn[<<k[1], k[2], call.target, oc>>] EXCEPT
                         !.rowids = out \o @],
                      collect_index_rowids_step(TheDb, page_stack, out,
                                                call.target, oc))
            /\ pc = "read_table_records_by_rowids"
                 /\ call.target_rowids \in TargetLists =>
                 Same(FetchStepOn[<<k[1], k[2], call.target_rowids, oc>>],
                      [FetchStepOn[<<k[1], k[2], call.target_rowids, oc>>]
                         EXCEPT !.records = out \o @],
                      read_table_records_by_rowids_step(TheDb, page_stack,
                          out, call.target_rowids, oc))

--------------------------------------------------------------------------
(* The calls on a byte slice: record.rs's parse_value and parse_record on  *)
(* inputs of their own, whatever file they may come from                   *)

MaxSerial == 19
MaxBody == 8
MaxRecLen == 5

\* serial types: every small one up to text and blobs of three bytes, and
\* two that only a nine-byte or a five-byte varint can hold
SerialTypes ==
    {FromNat(n) : n \in 0..MaxSerial}
    \cup {<<0, 0, 0, 1, 0, 0, 0, 12>>, <<128, 0, 0, 0, 0, 0, 0, 13>>}

\* bodies: the first byte decides the sign and starts a UTF-8 sequence, the
\* second may continue one, the others are all zeros or all ones
FirstBytes == {0, 127, 128, 195, 255}
SecondBytes == {0, 128, 255}
OtherBytes == {0, 255}

Bodies ==
    {<<>>} \cup {<<f>> : f \in FirstBytes}
    \cup UNION {{<<f, s>> \o t : f \in FirstBytes, s \in SecondBytes,
                               t \in [1..n -> OtherBytes]} :
                 n \in 0..(MaxBody - 2)}

\* record payloads: header lengths 0..3 in one byte or in two (128, k), the
\* serial types of Null, the short integers and a one-byte text, and bodies
RecordBytes == {0, 1, 2, 3, 15, 128}

Payloads == UNION {[1..n -> RecordBytes] : n \in 0..MaxRecLen}

\* varint slices: every string of up to MaxVarintLen bytes that end a
\* varint (1), go on with no bits (128) or go on with all bits (255)
MaxVarintLen == 9
VarintBytes == {1, 128, 255}

VarintSlices == UNION {[1..n -> VarintBytes] : n \in 0..MaxVarintLen}

\* words: 2^e, and 2^e - 1, as u64
Pow2(e) == [i \in 1..8 |-> IF i = 8 - (e \div 8) THEN 2 ^ (e % 8) ELSE 0]
Pow2Less1(e) ==
    [i \in 1..8 |->
       IF i > 8 - (e \div 8) THEN 255
       ELSE IF i = 8 - (e \div 8) THEN 2 ^ (e % 8) - 1
       ELSE 0]

\* the values encoded: the least and the greatest of every encoded length,
\* 2^63, 2^64 - 1 and a word of mixed bits
VarintValues ==
    {Pow2(7 * k) : k \in 0..9} \cup {Pow2Less1(7 * k) : k \in 0..9}
    \cup {Pow2(63), <<255, 255, 255, 255, 255, 255, 255, 255>>,
          <<18, 52, 86, 120, 154, 188, 222, 240>>}

Trailing == {<<>>, <<0>>, <<255, 1>>}

\* a value, the bytes after its varint, and the slice of both
Encoded ==
    {[value |-> v, rest |-> t, n |-> Len(EncVarint(v)),
      bytes |-> EncVarint(v) \o t] : v \in VarintValues, t \in Trailing}

\* table leaf cells as SQLite stores them in a page of CellPageSize bytes,
\* all of them usable: a payload of more than MaxLocal bytes keeps
\* LocalSize of them in the page, followed by the number of its first
\* overflow page
CellPageSize == 512
MaxLocal == CellPageSize - 35
MinLocal == ((CellPageSize - 12) * 32) \div 255 - 23

LocalSize(payload_size) ==
    LET k == MinLocal + ((payload_size - MinLocal) % (CellPageSize - 4))
    IN  IF payload_size <= MaxLocal THEN payload_size
        ELSE IF k <= MaxLocal THEN k
        ELSE MinLocal

PayloadOf(payload_size) == [i \in 1..payload_size |-> 1 + (i % 250)]
CellRowid == FromNat(5)
OverflowPage == U32(3)

\* the varints of the cell, and the cell
CellHead(payload_size) ==
    EncVarint(FromNat(payload_size)) \o EncVarint(CellRowid)

StoredCell(payload_size) ==
    CellHead(payload_size)
    \o Take(PayloadOf(payload_size), LocalSize(payload_size))
    \o (IF LocalSize(payload_size) < payload_size THEN OverflowPage
        ELSE <<>>)

\* payloads: empty, short, the longest kept whole, the shortest that
\* overflows, and longer ones
CellPayloadSizes == {0, 1, MinLocal, MaxLocal, MaxLocal + 1, MaxLocal + 3, 600}

\* where the cell lies: after the header and two cell pointers, in the
\* middle, or at the end of the page
CellOffsets == {12, 100}

\* the bytes of the cells between this one and the end of the page
Fillers == {0, 9}

Cells ==
    UNION {{[payload_size |-> s, at |-> a, filler |-> f] :
              a \in {o \in CellOffsets \cup
                             {CellPageSize - Len(StoredCell(s))} :
                       o + Len(StoredCell(s)) <= CellPageSize},
              f \in Fillers} :
           s \in CellPayloadSizes}

\* &page_data[cell_offset..] for the cell
CellSlice(c) ==
    StoredCell(c.payload_size)
    \o [i \in 1..(CellPageSize - c.at - Len(StoredCell(c.payload_size)))
          |-> c.filler]

\* page headers: every first byte, a cell content start of 0, 1 and 65535,
\* two right-most pointers, cut to 7, 8, 11 or 12 bytes
ContentStarts == {<<0, 0>>, <<0, 1>>, <<255, 255>>}
RightPointers == {<<0, 0, 0, 0>>, <<127, 255, 255, 254>>}
HeaderLengths == {7, 8, 11, 12}

HeaderSlices ==
    {Take(<<t, 0, 0, 0, 1>> \o cs \o <<0>> \o rp, n) :
       t \in 0..255, cs \in ContentStarts, rp \in RightPointers,
       n \in HeaderLengths}

\* files for the pager: the page size stored at bytes 16..18 is 1 (for
\* 65536), 128 or 200; the file ends inside its header, after it, or at,
\* before or after the end of a page; every other byte tells its offset
StoredPageSizes == {1, 128, 200}
MaxPageNumber == 3

PagerFile(stored, len) ==
    [i \in 1..len |->
       IF i = 17 THEN stored \div 256
       ELSE IF i = 18 THEN stored % 256
       ELSE i % 251]

PagerLengths(stored) ==
    {99, 100}
    \cup (IF stored = 1 THEN {65536}
          ELSE {stored, stored + 1, 2 * stored - 1, 2 * stored, 3 * stored})

PagerFiles ==
    UNION {{PagerFile(stored, len) : len \in PagerLengths(stored)} :
           stored \in StoredPageSizes}

\* queries: the keywords in three spellings, column lists and the two forms
\* of COUNT(*), names in lower, mixed and upper case, and conditions whose
\* value is quoted, bare, or quoted on one side only
Leads == {"", "  "}
Selects == {"select", "SELECT", "Select"}
Whats == {"name", "Name, COLOR", "id ,Name", "count(*)", "COUNT(*)",
          "Count (*)", ""}
Froms == {"from", "FROM", "From"}
TableNames == {"apples", "Apples", "T", ""}
Wheres == {"where", "WHERE", "Where"}
Conds ==
    {[text |-> "color = 'Yellow'", quoted |-> TRUE],
     [text |-> "Color='light Green' ", quoted |-> TRUE],
     [text |-> "color = ''", quoted |-> TRUE],
     [text |-> "color = Yellow", quoted |-> FALSE],
     [text |-> "id = 5", quoted |-> FALSE],
     [text |-> "color = 'Yellow", quoted |-> FALSE],
     [text |-> "color = '", quoted |-> FALSE]}

Queries ==
    {[lead |-> l, select |-> s, what |-> w, from |-> f, table |-> t,
      where |-> "", cond |-> NoQuery.cond] :
       l \in Leads, s \in Selects, w \in Whats, f \in Froms,
       t \in TableNames}
    \cup {[lead |-> l, select |-> s, what |-> w, from |-> f, table |-> t,
           where |-> k, cond |-> c] :
            l \in Leads, s \in Selects, w \in Whats, f \in Froms,
            t \in TableNames, k \in Wheres, c \in Conds}

\* the text of a query
QueryText(q) ==
    q.lead \o q.select \o " " \o q.what \o " " \o q.from \o " " \o q.table
    \o (IF q.where = "" THEN "" ELSE " " \o q.where \o " " \o q.cond.text)

NoDb ==
    [kind |-> "none", rows |-> <<>>, shape |-> "leaf", cuts |-> <<>>,
     entries |-> <<>>, defect |-> NoDefect]

\* the calls before their slice is chosen
CodecCalls ==
    {[NoCall EXCEPT !.fn = "parse_value", !.serial_type = s] :
       s \in SerialTypes}
    \cup {[NoCall EXCEPT !.fn = "parse_record"]}
    \cup {[NoCall EXCEPT !.fn = "main_parse_record"]}
    \cup {[NoCall EXCEPT !.fn = "parse_query"]}
    \cup {[NoCall EXCEPT !.fn = "read_varint"]}
    \cup {[NoCall EXCEPT !.fn = "TableBTreeLeafCell_parse"]}
    \cup {[NoCall EXCEPT !.fn = "BTreePageHeader_parse"]}
    \cup {[NoCall EXCEPT !.fn = "read_page", !.root = n] :
            n \in 1..MaxPageNumber}

InitCodec ==
    /\ dbdesc = NoDb
    /\ call \in CodecCalls
    /\ pc = "idle"
    /\ page_stack = <<>>
    /\ pages_left = <<>>
    /\ out = <<>>
    /\ ret = NoRet

Call_parse_value ==
    /\ pc = "idle"
    /\ call.fn = "parse_value"
    /\ \E bytes \in Bodies :
         /\ call' = [call EXCEPT !.bytes = bytes]
         /\ Finish(parse_value(call.serial_type, bytes))
    /\ UNCHANGED <<dbdesc, page_stack, pages_left, out>>

Call_parse_record ==
    /\ pc = "idle"
    /\ call.fn = "parse_record"
    /\ \E record_payload \in Payloads :
         /\ call' = [call EXCEPT !.bytes = record_payload]
         /\ Finish(parse_record(record_payload))
    /\ UNCHANGED <<dbdesc, page_stack, pages_left, out>>

Call_read_varint ==
    /\ pc = "idle"
    /\ call.fn = "read_varint"
    /\ \E bytes \in VarintSlices \cup {e.bytes : e \in Encoded} :
         /\ call' = [call EXCEPT !.bytes = bytes]
         /\ Finish(read_varint(bytes))
    /\ UNCHANGED <<dbdesc, page_stack, pages_left, out>>

Call_TableBTreeLeafCell_parse ==
    /\ pc = "idle"
    /\ call.fn = "TableBTreeLeafCell_parse"
    /\ \E c \in Cells :
         /\ call' = [call EXCEPT !.cell = c, !.bytes = CellSlice(c)]
         /\ Finish(TableBTreeLeafCell_parse(CellSlice(c)))
    /\ UNCHANGED <<dbdesc, page_stack, pages_left, out>>

Call_BTreePageHeader_parse ==
    /\ pc = "idle"
    /\ call.fn = "BTreePageHeader_parse"
    /\ \E data \in HeaderSlices :
         /\ call' = [call EXCEPT !.bytes = data]
         /\ Finish(BTreePageHeader_parse(data))
    /\ UNCHANGED <<dbdesc, page_stack, pages_left, out>>

Call_read_page ==
    /\ pc = "idle"
    /\ call.fn = "read_page"
    /\ \E file \in PagerFiles :
         /\ call' = [call EXCEPT !.bytes = file]
         /\ Finish(open_read_page(file, call.root, TRUE))
    /\ UNCHANGED <<dbdesc, page_stack, pages_left, out>>

\* parse_record of main.rs on the payloads given to record.rs's
Call_main_parse_record ==
    /\ pc = "idle"
    /\ call.fn = "main_parse_record"
    /\ \E bytes \in Payloads :
         /\ call' = [call EXCEPT !.bytes = bytes]
         /\ Finish(main_parse_record(bytes))
    /\ UNCHANGED <<dbdesc, page_stack, pages_left, out>>

Call_parse_query ==
    /\ pc = "idle"
    /\ call.fn = "parse_query"
    /\ \E q \in Queries :
         /\ call' = [call EXCEPT !.query = q]
         /\ Finish(parse_query(QueryText(q)))
    /\ UNCHANGED <<dbdesc, page_stack, pages_left, out>>

NextCodec ==
    \/ Call_parse_value
    \/ Call_parse_record
    \/ Call_main_parse_record
    \/ Call_read_varint
    \/ Call_TableBTreeLeafCell_parse
    \/ Call_BTreePageHeader_parse
    \/ Call_read_page
    \/ Call_parse_query

SpecCodec == InitCodec /\ [][NextCodec]_vars

--------------------------------------------------------------------------
(* What the description of a file says its table holds *)

Done(fn) == pc = "done" /\ call.fn = fn

\* a file without a defect whose pages are the trees of the description:
\* the table ordered by rowid as i64, the index by key
WellFormed == dbdesc.kind = "tree" /\ dbdesc.defect = NoDefect

RowOf(row) == <<IntV(row.rowid), TextV(row.key)>>
RowsOf(rows) == [i \in 1..Len(rows) |-> RowOf(rows[i])]

AscendingRowids(records) ==
    \A i, j \in 1..Len(records) :
        i < j => I64Less(records[i][1].v, records[j][1].v)

NoRepeats(s) == \A i, j \in 1..Len(s) : i # j => s[i] # s[j]

Count(s, x) == Cardinality({i \in 1..Len(s) : s[i] = x})

SameBag(a, b) ==
    /\ Len(a) = Len(b)
    /\ \A x \in Range(a) \cup Range(b) : Count(a, x) = Count(b, x)

\* the full scan of the table of the file
TheScan == read_table_records(TheDb, TableRoot)

--------------------------------------------------------------------------
(* C1 *)

\* C1: on a well-formed table B-tree read_table_records returns one row
\* for each row of the table, Int(rowid) followed by the record's columns,
\* in ascending rowid order; the leaf pages collect_leaf_pages lists are the
\* tree's leaves from left to right, none repeated
C1_ScanInRowidOrder ==
    /\ Done("read_table_records") /\ WellFormed =>
         /\ ret.st = "ok"
         /\ ret.records = RowsOf(dbdesc.rows)
         /\ AscendingRowids(ret.records)
    /\ pc = "read_table_records" /\ WellFormed => NoRepeats(pages_left)

C1_Witness ==
    /\ Done("read_table_records")
    /\ WellFormed
    /\ dbdesc.shape = "deep"
    /\ ret.st = "ok"
    /\ Len(ret.records) = 3

--------------------------------------------------------------------------
(* C2 *)

\* C2: on a well-formed table B-tree read_table_records_by_rowids(root, S)
\* returns the rows of read_table_records(root) whose rowid is in S, in the
\* same order, each once
C2_FetchIsFilteredScan ==
    Done("read_table_records_by_rowids") /\ WellFormed =>
        LET InS(row) == row[1].v \in Range(call.target_rowids)
        IN  /\ ret.st = "ok"
            /\ ret.records = SelectSeq(TheScan.records, InS)
            /\ Len(ret.records) <= Len(call.target_rowids)

--------------------------------------------------------------------------
(* C3 *)

\* the rowids of the rows whose key is the target
Matching(rows, target) == {rows[i].rowid : i \in {j \in 1..Len(rows) : rows[j].key = target}}

SortedU64(s) == \A i, j \in 1..Len(s) : i < j => U64Leq(s[i], s[j])

\* C3: on a well-formed index B-tree collect_index_rowids(root, target)
\* returns the rowid of every leaf cell whose first column is the target,
\* each once and no other, and the list it returns is sorted ascending (a
\* list of u64)
C3_IndexSearchExact ==
    Done("collect_index_rowids") /\ WellFormed =>
        /\ ret.st = "ok"
        /\ Range(ret.rowids) = Matching(dbdesc.rows, call.target)
        /\ NoRepeats(ret.rowids)
        /\ SortedU64(ret.rowids)

C3_Witness ==
    /\ Done("collect_index_rowids")
    /\ WellFormed
    /\ dbdesc.shape = "deep"
    /\ ret.st = "ok"
    /\ Len(ret.rowids) >= 2
    /\ Len(ret.rowids) < Len(dbdesc.rows)

--------------------------------------------------------------------------
(* C4 *)

\* C4: the rows fetched by the rowids an index search for v returned are,
\* as a multiset, the rows of the full scan whose indexed column is v
C4_IndexedPathIsScanPath ==
    Done("read_table_records_by_rowids") /\ call.via_index /\ WellFormed =>
        LET IsV(row) == row[2] = TextV(call.target)
        IN  /\ ret.st = "ok"
            /\ SameBag(ret.records, SelectSeq(TheScan.records, IsV))

--------------------------------------------------------------------------
(* C5 *)

\* C5: the number handle_count prints for the table is the number of rows
\* of the full scan of the table
C5_CountIsScanCount ==
    Done("handle_count") /\ WellFormed /\ call.target = TName =>
        /\ ret.st = "ok"
        /\ ret.out = <<Len(TheScan.records)>>

--------------------------------------------------------------------------
(* C6 *)

\* a schema entry of type "table" whose tbl_name does not start with sqlite_
IsUserTable(entry) ==
    entry.typ = TableStr /\ ~StartsWith(entry.tbl_name, SqlitePrefix)

UserTableNames(entries) ==
    LET Names(listed) == [i \in 1..Len(listed) |-> listed[i].tbl_name]
    IN  Names(SelectSeq(entries, IsUserTable))

\* C6: .dbinfo reports the number of, and .tables prints the names of, the
\* schema entries of type "table" whose tbl_name does not start with sqlite_
C6_UserTablesOnly ==
    /\ Done("handle_dbinfo") /\ dbdesc.defect = NoDefect =>
         /\ ret.st = "ok"
         /\ ret.out = <<PageSizeOf(dbdesc), Len(UserTableNames(dbdesc.entries))>>
    /\ Done("handle_tables") /\ dbdesc.defect = NoDefect =>
         /\ ret.st = "ok"
         /\ ret.out = <<UserTableNames(dbdesc.entries)>>

--------------------------------------------------------------------------
(* C7 *)

\* the call reads the cell pointers of the page that has the defect
ReadsDefect ==
    /\ pc = "done"
    /\ dbdesc.defect.kind \in DefectKinds
    /\ \/ call.fn = "read_schema" /\ dbdesc.defect.page = 1
       \/ call.fn = "read_table_records" /\ dbdesc.defect.page = TableRoot
       \/ /\ call.fn = "read_table_records_by_rowids"
          /\ call.target_rowids # <<>>
          /\ dbdesc.defect.page = TableRoot
       \/ call.fn = "collect_index_rowids" /\ dbdesc.defect.page = IndexRoot

\* C7: a cell pointer outside [cell_content_start, P) makes read_schema and
\* each traversal return an error; none panics
C7_BadPointerIsError == ReadsDefect => ret.st = "err"

--------------------------------------------------------------------------
(* What the record format says of a payload and of a value *)

\* the header length varint of the payload in the call
TheK == read_varint(call.bytes)

\* the serial types held by a serial types section, one varint after another
TypesIn(section) == serial_types_loop(section, 0, <<>>)

\* C8: for every byte slice, parse_record reads the header length varint K,
\* which takes L bytes, and fails when the varint cannot be read, when
\* K < L, or when K - L is more than the bytes that remain after the
\* varint.  Otherwise the serial types are the varints held by exactly the
\* bytes L+1..K of the slice, and the values are decoded from the body that
\* starts at byte K+1: the record fails when those bytes do not end on a
\* varint or a value fails, and is the values of that body otherwise.
C8_RecordHeaderChecked ==
    Done("parse_record") =>
      IF ~IsOk(TheK) THEN ret = Err
      ELSE IF ~IsSmall(TheK.value) THEN ret = Err
      ELSE LET K == ToNat(TheK.value)
               L == TheK.n
           IN  IF K < L \/ K - L > Len(call.bytes) - L THEN ret = Err
               ELSE IF ~IsOk(TypesIn(SubSeq(call.bytes, L + 1, K)))
               THEN ret = Err
               ELSE ret = values_loop(TypesIn(SubSeq(call.bytes, L + 1, K)).types,
                                      1, Drop(call.bytes, K), <<>>)

\* a record whose header length takes two bytes and that holds a column
C8_Witness ==
    /\ Done("parse_record")
    /\ IsOk(TheK) /\ TheK.n = 2
    /\ ret.st = "ok" /\ Len(ret.values) >= 1

\* the serial-type table: the bytes a serial type consumes
ConsumedBy(s) ==
    CASE s \in {0, 8, 9} -> 0
      [] s \in 1..4 -> s
      [] s = 5 -> 6
      [] s \in {6, 7} -> 8
      [] OTHER -> (s - 12 - (s % 2)) \div 2

\* the serial-type table: the kind of value a serial type gives
TagOf(s) ==
    CASE s = 0 -> "Null"
      [] s \in 1..6 \/ s \in {8, 9} -> "Int"
      [] s = 7 -> "Float"
      [] s % 2 = 0 -> "Blob"
      [] OTHER -> "Text"

\* the offset of column i in the body: the lengths of the columns before it
RECURSIVE OffsetOf(_, _)
OffsetOf(types, i) ==
    IF i = 1 THEN 0
    ELSE OffsetOf(types, i - 1) + ConsumedBy(ToNat(types[i - 1]))

\* C9: for every serial type s and every body, parse_value follows the
\* serial-type table.  It fails on 10 and 11, on a body shorter than the
\* type consumes (a type of 2^31 or more consumes more than any body
\* holds), and on a text that is not UTF-8.  Otherwise it gives the kind of
\* the table and consumes the bytes of the table: Null for 0, Int 0 and
\* Int 1 for 8 and 9 from no bytes, Int from 1, 2, 3, 4, 6, 8 bytes for
\* 1..6, Float from 8 bytes for 7, a Blob or a Text that is the first
\* (s - 12 - (s mod 2)) / 2 bytes of the body for s >= 12.  And parse_record
\* returns one value per serial type of the header, in header order, each
\* the value parse_value reads at the sum of the lengths of the columns
\* before it.
C9_SerialTypeTable ==
    /\ Done("parse_value") =>
         LET b == call.bytes
             s == ToNat(call.serial_type)
         IN  IF ~IsSmall(call.serial_type) THEN ret = Err
             ELSE IF s \in {10, 11} \/ Len(b) < ConsumedBy(s) THEN ret = Err
             ELSE IF TagOf(s) = "Text" /\ ~Utf8Valid(Take(b, ConsumedBy(s)))
             THEN ret = Err
             ELSE /\ ret.st = "ok"
                  /\ ret.n = ConsumedBy(s)
                  /\ ret.value.tag = TagOf(s)
                  /\ s = 0 => ret.value = Null
                  /\ s = 8 => ret.value = IntV(<<0, 0, 0, 0, 0, 0, 0, 0>>)
                  /\ s = 9 => ret.value = IntV(<<0, 0, 0, 0, 0, 0, 0, 1>>)
                  /\ s = 7 => ret.value.v = Take(b, 8)
                  /\ s >= 12 => ret.value.v = Take(b, ConsumedBy(s))
    /\ Done("parse_record") /\ ret.st = "ok" =>
         LET K == ToNat(TheK.value)
             types == TypesIn(SubSeq(call.bytes, TheK.n + 1, K)).types
             body == Drop(call.bytes, K)
         IN  /\ Len(ret.values) = Len(types)
             /\ \A i \in 1..Len(types) :
                  /\ OffsetOf(types, i) <= Len(body)
                  /\ ret.values[i] =
                       parse_value(types[i], Drop(body, OffsetOf(types, i))).value

\* a text of two bytes that are one UTF-8 character, read by parse_value
C9_Witness ==
    /\ Done("parse_value")
    /\ call.serial_type = FromNat(17)
    /\ ret.st = "ok"
    /\ ret.value = TextV(<<195, 128>>)

\* the two's-complement value of w bytes, most significant first, as an i64:
\* the bytes themselves below the copies of their sign bit
SignedValue(b) ==
    [i \in 1..8 |->
       IF i <= 8 - Len(b) THEN (IF b[1] >= 128 THEN 255 ELSE 0)
       ELSE b[i - (8 - Len(b))]]

\* C10: for each serial type 1..6, of width 8, 16, 24, 32, 48, 64 bits, and
\* every body that holds the bytes of that width, parse_value returns
\* Int(v) where v is the two's-complement value of those bytes extended to
\* 64 bits with their sign, the least and the greatest of each width
\* included.
C10_SignExtended ==
    Done("parse_value") /\ IsSmall(call.serial_type)
      /\ ToNat(call.serial_type) \in 1..6
      /\ Len(call.bytes) >= ConsumedBy(ToNat(call.serial_type)) =>
        /\ ret.st = "ok"
        /\ ret.value =
             IntV(SignedValue(Take(call.bytes,
                                   ConsumedBy(ToNat(call.serial_type)))))

\* the least 24-bit value, -2^23, read as an Int
C10_Witness ==
    /\ Done("parse_value")
    /\ call.serial_type = FromNat(3)
    /\ call.bytes = <<128, 0, 0>>
    /\ ret.st = "ok"
    /\ ret.value = IntV(<<255, 255, 255, 255, 255, 128, 0, 0>>)

--------------------------------------------------------------------------
(* What the varint format says of a slice *)

\* the k low bits of a byte, most significant first
BitsOf(byte, k) == [i \in 1..k |-> (byte \div 2 ^ (k - i)) % 2]

\* the bits the first n bytes of a varint give: seven a byte, all eight of
\* a ninth
RECURSIVE VarintBits(_, _)
VarintBits(b, n) ==
    IF n = 0 THEN <<>>
    ELSE VarintBits(b, n - 1) \o BitsOf(b[n], IF n = 9 THEN 8 ELSE 7)

\* the u64 whose low bits are the given ones
WordOfBits(bits) ==
    LET At(j) == IF j <= 64 - Len(bits) THEN 0 ELSE bits[j - (64 - Len(bits))]
    IN  [i \in 1..8 |->
           At(8 * i - 7) * 128 + At(8 * i - 6) * 64 + At(8 * i - 5) * 32
           + At(8 * i - 4) * 16 + At(8 * i - 3) * 8 + At(8 * i - 2) * 4
           + At(8 * i - 1) * 2 + At(8 * i)]

\* C11: read_varint on the varint of a value v, whatever bytes follow it,
\* returns v, the length of the varint as the count consumed and the bytes
\* that follow as the rest; and the value of every varint read is made of
\* the low seven bits of each of its first eight bytes and all eight bits
\* of a ninth.
C11_VarintRoundTrip ==
    Done("read_varint") =>
      /\ \A e \in Encoded :
           call.bytes = e.bytes =>
             ret = [st |-> "ok", value |-> e.value, rest |-> e.rest, n |-> e.n]
      /\ ret.st = "ok" => ret.value = WordOfBits(VarintBits(call.bytes, ret.n))

\* the varint of 2^64 - 1, nine bytes, read before two bytes more
C11_Witness ==
    /\ Done("read_varint")
    /\ call.bytes = <<255, 255, 255, 255, 255, 255, 255, 255, 255, 255, 1>>
    /\ ret.st = "ok" /\ ret.n = 9
    /\ ret.value = <<255, 255, 255, 255, 255, 255, 255, 255>>
    /\ ret.rest = <<255, 1>>

\* the place of the byte that ends the varint of a slice: the first among
\* its first eight bytes with the high bit clear, else the ninth; 0 when
\* the slice ends before it
VarintEnd(b) ==
    LET ends == {i \in 1..Len(b) : i <= 9 /\ (b[i] < 128 \/ i = 9)}
    IN  IF ends = {} THEN 0
        ELSE CHOOSE i \in ends : \A j \in ends : i <= j

\* C12: on every slice read_varint fails or consumes 1 to 9 bytes; it
\* fails exactly when the slice, the empty one included, ends before a byte
\* with the high bit clear or a ninth byte, and what it returns as the rest
\* is the slice after the bytes consumed, all of them within the slice.
C12_VarintLength ==
    Done("read_varint") =>
      IF VarintEnd(call.bytes) = 0 THEN ret = Err
      ELSE /\ ret.st = "ok"
           /\ ret.n = VarintEnd(call.bytes)
           /\ ret.n \in 1..9 /\ ret.n <= Len(call.bytes)
           /\ ret.rest = Drop(call.bytes, ret.n)

\* nine bytes with the high bit set, read whole, and a tenth left
C12_Witness ==
    /\ Done("read_varint")
    /\ Len(call.bytes) = 10
    /\ \A i \in 1..9 : call.bytes[i] >= 128
    /\ ret.st = "ok" /\ ret.n = 9 /\ Len(ret.rest) = 1

--------------------------------------------------------------------------
(* What the traversals do with a page that is not of their tree *)

\* the file has the given defect on the given page
Misplaced(kind, page) ==
    dbdesc.defect.kind = kind /\ dbdesc.defect.page = page

\* C13: collect_index_rowids returns an error, and no list of rowids, when
\* a page it reaches from the index root (the root itself, or the leaf under
\* its right-most pointer) is not a LeafIndex or InteriorIndex page, and
\* when a leaf cell it reaches holds a record of fewer than two columns.
C13_IndexFailureModes ==
    Done("collect_index_rowids") =>
      /\ (Misplaced("type_swapped", IndexRoot)
            \/ Misplaced("type_swapped", IndexRoot + 2)) => ret = Err
      /\ Misplaced("one_column", IndexRoot + 2) => ret = Err

\* the page type byte the file holds for a page
TypeOfPage(n) ==
    IF n \in 1..Len(Pages[dbdesc]) THEN Pages[dbdesc][n].ptype ELSE 0

Traversals ==
    {"collect_leaf_pages", "collect_index_rowids",
     "read_table_records_by_rowids"}

\* the leaf and the interior page type of the tree a traversal walks
LeafTypeOf(p) ==
    IF p = "collect_index_rowids" THEN LeafIndexByte ELSE LeafTableByte
InteriorTypeOf(p) ==
    IF p = "collect_index_rowids" THEN InteriorIndexByte ELSE InteriorTableByte

\* what a traversal has emitted so far: leaf pages, rowids or rows
EmittedBy(p, leaves, gathered) ==
    IF p = "collect_leaf_pages" THEN leaves ELSE gathered

\* one iteration of a traversal, against the type of the page it pops
FollowsPageType ==
    pc \in Traversals /\ page_stack # <<>> =>
         LET t == TypeOfPage(Top(page_stack))
             before == EmittedBy(pc, pages_left, out)
             after == EmittedBy(pc, pages_left', out')
             Failed == pc' = "done" /\ ret'.st \in {"err", "panic"}
         IN  /\ t = LeafTypeOf(pc) =>
                  \/ Failed
                  \/ /\ pc' = pc
                     /\ page_stack' = Pop(page_stack)
                     /\ Len(after) >= Len(before)
                     /\ Take(after, Len(before)) = before
             /\ t = InteriorTypeOf(pc) =>
                  \/ Failed
                  \/ /\ pc' = pc
                     /\ after = before
                     /\ Len(page_stack') >= Len(page_stack) - 1
                     /\ Take(page_stack', Len(page_stack) - 1) = Pop(page_stack)
             /\ t \notin {LeafTypeOf(pc), InteriorTypeOf(pc)} =>
                  pc' = "done" /\ ret' = Err

\* C14: every iteration of a traversal follows the state machine of the
\* page it pops.  On a leaf page of its tree it pushes no page and only
\* emits (the leaf page, index matches, table rows); on an interior page of
\* its tree it emits nothing and only pushes pages on what is left of the
\* stack; on any other page it returns an error: collect_leaf_pages and
\* read_table_records_by_rowids on an InteriorIndex or LeafIndex page,
\* collect_index_rowids on an InteriorTable or LeafTable page.  A step may
\* also end the call with a failure found inside the page.
C14_PageStateMachine == [][FollowsPageType]_vars

\* a table scan that met a LeafIndex page under the table's root and failed
C14_Witness ==
    /\ Done("read_table_records")
    /\ Misplaced("type_swapped", TableRoot + 1)
    /\ TypeOfPage(TableRoot + 1) = LeafIndexByte
    /\ ret = Err

--------------------------------------------------------------------------
(* Claim C15 *)

\* the payload needs an overflow page
Overflows(c) == c.payload_size > MaxLocal

\* C15: TableBTreeLeafCell::parse returns an error for every table leaf
\* cell whose declared payload_size needs an overflow page; it never
\* returns Ok with a payload other than the whole payload of the cell; and
\* for a cell whose payload lies whole in the page it returns the
\* payload_size bytes that follow the two varints.
C15_OverflowRejected ==
    Done("TableBTreeLeafCell_parse") =>
        LET c == call.cell
            head == Len(CellHead(c.payload_size))
        IN  /\ Overflows(c) => ret = Err
            /\ IsOk(ret) => ret.payload = PayloadOf(c.payload_size)
            /\ ~Overflows(c) =>
                   /\ IsOk(ret)
                   /\ ret.payload =
                        SubSeq(call.bytes, head + 1, head + c.payload_size)

--------------------------------------------------------------------------
(* Claim C16 *)

\* the row has its five columns, of the expected variants
ExpectedVariants(cols) ==
    /\ Len(cols) >= 5
    /\ cols[1].tag = "Text"
    /\ cols[3].tag = "Text"
    /\ cols[4].tag = "Int"
    /\ cols[5].tag \in {"Text", "Null"}

\* the entries of the rows of the file that have them, in the order of the
\* cell pointers
RECURSIVE EntriesFrom(_, _)
EntriesFrom(d, i) ==
    IF i > Len(d.entries) THEN <<>>
    ELSE LET cols == RowColumns(d, i) IN
         (IF ExpectedVariants(cols)
          THEN <<[typ |-> cols[1].v, tbl_name |-> cols[3].v,
                  rootpage |-> ToNat(cols[4].v),
                  sql |-> IF cols[5].tag = "Text" THEN Some(cols[5].v)
                          ELSE None]>>
          ELSE <<>>)
         \o EntriesFrom(d, i + 1)

WithoutSql(entries) ==
    [i \in 1..Len(entries) |->
       [typ |-> entries[i].typ, tbl_name |-> entries[i].tbl_name,
        rootpage |-> entries[i].rootpage]]

SchemaFile == dbdesc.kind = "schema"

\* C16: read_schema returns, in the order of the cell pointers of page 1,
\* an entry for exactly the rows of five columns or more whose type is
\* Text, tbl_name Text, rootpage Int and sql Text or Null; every other row
\* is skipped and the read does not fail.  So do both read_schema, of
\* database.rs and of main.rs (whose entries have no sql).
C16_SchemaRowsFiltered ==
    /\ Done("read_schema") /\ SchemaFile =>
         ret = [st |-> "ok", entries |-> EntriesFrom(dbdesc, 1)]
    /\ Done("main_read_schema") /\ SchemaFile =>
         ret = [st |-> "ok", entries |-> WithoutSql(EntriesFrom(dbdesc, 1))]

--------------------------------------------------------------------------
(* Claim C17 *)

\* the u16 at bytes 5..7 and the u32 at bytes 8..12 of the slice
StoredContentStart(data) == data[6] * 256 + data[7]
StoredRightPointer(data) ==
    ((data[9] * 256 + data[10]) * 256 + data[11]) * 256 + data[12]

\* C17: on a slice of 8 bytes or more, BTreePageHeader::parse returns an
\* error for every first byte other than 0x02, 0x05, 0x0A and 0x0D and
\* accepts those four (an interior type when its 12 bytes are there); the
\* header has a right_most_pointer, the u32 at bytes 8..12, exactly when
\* the type is 0x02 or 0x05; and its cell_content_start is 65536 for a
\* stored 0 and the stored u16 otherwise.
C17_HeaderParsed ==
    Done("BTreePageHeader_parse") /\ Len(call.bytes) >= 8 =>
        LET data == call.bytes
            interior == data[1] \in {2, 5}
            leaf == data[1] \in {10, 13}
        IN  /\ IsOk(ret) <=> leaf \/ (interior /\ Len(data) >= 12)
            /\ ~IsOk(ret) => ret = Err
            /\ IsOk(ret) =>
                  /\ ret.right_most_pointer.some <=> interior
                  /\ interior =>
                        ret.right_most_pointer.v = StoredRightPointer(data)
                  /\ ret.cell_content_start =
                        IF StoredContentStart(data) = 0 THEN 65536
                        ELSE StoredContentStart(data)

\* an interior table header with a stored cell content start of 0
C17_Witness ==
    /\ Done("BTreePageHeader_parse")
    /\ call.bytes[1] = 5
    /\ Len(call.bytes) = 12
    /\ StoredContentStart(call.bytes) = 0
    /\ IsOk(ret)
    /\ ret.cell_content_start = 65536
    /\ ret.right_most_pointer = Some(2147483646)

--------------------------------------------------------------------------
(* Claim C18 *)

\* the page size the header of the file gives
PageSizeIn(file) ==
    LET stored == file[17] * 256 + file[18]
    IN  IF stored = 1 THEN 65536 ELSE stored

\* C18: Database::open takes the page size P from the big-endian u16 at
\* bytes 16..18 of the header, a stored 1 being 65536; read_page(n), for
\* n >= 1, returns the P bytes of the file at offsets [(n-1)*P, n*P), and
\* an error when the file does not hold that many.
C18_PageRead ==
    Done("read_page") /\ Len(call.bytes) >= 100 =>
        LET file == call.bytes
            n == call.root
            P == PageSizeIn(file)
        IN  /\ ret.page_size = P
            /\ IF n * P <= Len(file)
               THEN /\ ret.st = "ok"
                    /\ ret.data = SubSeq(file, (n - 1) * P + 1, n * P)
               ELSE ret.st = "err"

\* the one page of a file whose stored page size is 1
C18_Witness ==
    /\ Done("read_page")
    /\ PageSizeIn(call.bytes) = 65536
    /\ Len(call.bytes) = 65536
    /\ ret.st = "ok"
    /\ Len(ret.data) = 65536

--------------------------------------------------------------------------
(* Claim C19 *)

\* C19: each B-tree traversal (collect_leaf_pages, collect_index_rowids,
\* read_table_records_by_rowids) ends on every file: once its loop has
\* started from the root on the stack, it eventually leaves the loop, the
\* stack empty or an error returned, whatever the child pointers of the
\* pages.
C19_TraversalsEnd == \A p \in Traversals : (pc = p) ~> (pc # p)

--------------------------------------------------------------------------
(* Claim C20 *)

\* the table holds a negative rowid
HasNegativeRowid == \E i \in 1..Len(dbdesc.rows) : dbdesc.rows[i].rowid[1] >= 128

SortedI64(s) ==
    \A i, j \in 1..Len(s) : i < j => s[i] = s[j] \/ I64Less(s[i], s[j])

\* C20: rowids are signed 64-bit integers on the lookup path.  On a
\* well-formed table ordered by ascending signed rowid that holds a
\* negative rowid, collect_index_rowids returns its rowids in ascending
\* signed order, and read_table_records_by_rowids(root, S) returns every
\* row of the table whose rowid is in S.
C20_SignedRowids ==
    /\ Done("collect_index_rowids") /\ WellFormed /\ HasNegativeRowid =>
         ret.st = "ok" /\ SortedI64(ret.rowids)
    /\ Done("read_table_records_by_rowids") /\ WellFormed /\ HasNegativeRowid =>
         /\ ret.st = "ok"
         /\ \A i \in 1..Len(dbdesc.rows) :
               dbdesc.rows[i].rowid \in Range(call.target_rowids) =>
                   RowOf(dbdesc.rows[i]) \in Range(ret.records)

--------------------------------------------------------------------------
(* The two record decoders *)

\* C21: on every byte slice, parse_record of main.rs returns the column
\* values that parse_record of record.rs returns when that one succeeds,
\* and returns an error, without a panic, when that one fails.
C21_DecodersAgree ==
    Done("main_parse_record") =>
      IF IsOk(parse_record(call.bytes)) THEN ret = parse_record(call.bytes)
      ELSE ret = Err

--------------------------------------------------------------------------
(* The query parser *)

IsSubstring(x, s) ==
    \E i \in 0..(Len(s) - Len(x)) : SubSeq(s, i + 1, i + Len(x)) = x

\* the names occur in s from position from on, one after the other
RECURSIVE OccurInOrder(_, _, _)
OccurInOrder(names, s, from) ==
    \/ names = <<>>
    \/ \E i \in from..(Len(s) - Len(names[1]) + 1) :
         /\ SubSeq(s, i, i + Len(names[1]) - 1) = names[1]
         /\ OccurInOrder(Tail(names), s, i + Len(names[1]))

\* the query with its keywords in lower case
KeywordsLowered(q) ==
    [q EXCEPT !.select = to_lowercase(@), !.from = to_lowercase(@),
              !.where = to_lowercase(@),
              !.what = IF to_lowercase(@) \in {"count(*)", "count (*)"}
                       THEN to_lowercase(@) ELSE @]

\* C22: parse_query matches SELECT, COUNT(*), FROM and WHERE in any case:
\* a query is accepted exactly if it is accepted with its keywords in lower
\* case. Of an accepted query the table name (of Select and of
\* SelectCount), the column names, in the order listed, and the WHERE
\* literal between its single quotes are substrings of the query, their
\* case unchanged. A WHERE value that is not enclosed in single quotes is
\* rejected with an error.
C22_QueryParsed ==
    Done("parse_query") =>
      /\ IsOk(ret) <=> IsOk(parse_query(QueryText(KeywordsLowered(call.query))))
      /\ IsOk(ret) =>
           /\ IsSubstring(ret.table, QueryText(call.query))
           /\ ret.kind = "Select" =>
                /\ OccurInOrder(ret.columns, QueryText(call.query), 1)
                /\ ret.where_clause.some =>
                     IsSubstring("'" \o ret.where_clause.value \o "'",
                                 QueryText(call.query))
      /\ call.query.where # "" /\ ~call.query.cond.quoted => ret = Err

==========================================================================
